---- MODULE Spec2Model ----
(***************************************************************************)
(* Model of the statistical helpers of DVH Analytics that live in          *)
(* dvha/models/plot.py: Plot.clean_data (the missing-data alignment),      *)
(* PlotControlChart (the raw and the adjusted control chart),              *)
(* PlotTimeSeries (points, histogram, trend and percentile band),          *)
(* PlotRegression and PlotMultiVarRegression (the fits and their tables).  *)
(*                                                                         *)
(* Python lists are sequences.  Python indices are 0-based, the indices of *)
(* this module are 1-based: index i here is index i-1 of the source.       *)
(* Floating point numbers are modelled by exact rationals [num, den].      *)
(***************************************************************************)
EXTENDS Integers, Sequences, FiniteSets, TLC

VARIABLES
    call,          \* the last call made: its name and its arguments
    ans,           \* the value the last call of clean_data returned
    raised,        \* the exception the last call raised, "" when it returned
    source,        \* PlotControlChart.source: key -> data of a ColumnDataSource
    div,           \* the text of the six Div objects of the control chart
    y_axis_label,  \* PlotControlChart.y_axis_label
    axis_label,    \* figure.yaxis.axis_label / figure.xaxis.axis_label
    time_series,   \* the PlotTimeSeries object: its sources and its labels
    regression,    \* the PlotRegression object
    multi_var,     \* the PlotMultiVarRegression object
    main_frame,    \* the DVHAMainFrame object and the data file it writes
    options        \* an Options object, the options file and its checksum

vars == <<call, ans, raised, source, div, y_axis_label, axis_label,
          time_series, regression, multi_var, main_frame, options>>

\* the main frame and the options
shell == <<main_frame, options>>

\* the plots other than the control chart
other_plots == <<time_series, regression, multi_var>>

\* the control chart
control_chart == <<source, div, y_axis_label, axis_label>>

----------------------------------------------------------------------------
(* Bounds *)

\* the longest list clean_data is given when it is called on its own
MaxLen == 3

\* the longest series a control chart is given
MaxSeries == 5

\* the most studies a regression is given
MaxStudies == 4

\* the most rows a filter table of the main frame is given
MaxRows == 2

\* the most DVHs a query returns
MaxDvhs == 2

----------------------------------------------------------------------------
(* Python values *)

Num(n) == [kind |-> "num", num |-> n]
Str(s) == [kind |-> "str", str |-> s]

\* the sentinel of a missing observation: the string 'None'
NoneStr == Str("None")

\* the identifier (mrn, uid) or the date of the study at index i of the input
Id(what, i) == [kind |-> what, study |-> i]

\* an optional keyword argument: Python None, or a list
PyNone == [kind |-> "NoneType"]
PyList(s) == [kind |-> "list", items |-> s]

\* value == 'None'
IsNoneStr(value) == value.kind = "str" /\ value.str = "None"

\* `if var:` for var a list or None
Truthy(var) == var.kind = "list" /\ Len(var.items) > 0

----------------------------------------------------------------------------
(* Plot.clean_data *)

\* [i for i, value in enumerate(var) if value == 'None']
none_indices(var) == {i \in 1..Len(var) : IsNoneStr(var[i])}

\* a scan that stops at the first variable
bad_indices_first_only(data) ==
    IF Len(data) = 0 THEN {} ELSE none_indices(data[1])

\* bad_indices after the loop over data: the set of the collected indices
bad_indices(data) ==
    UNION {none_indices(data[j]) : j \in 1..Len(data)}

\* a filter that numbers the entries from 1 where the indices count from 0
keep_off_by_one(var, bad) ==
    LET F[i \in 0..Len(var)] ==
            IF i = 0 THEN <<>>
            ELSE IF (i + 1) \in bad THEN F[i - 1]
            ELSE Append(F[i - 1], var[i])
    IN  F[Len(var)]

\* [value for i, value in enumerate(var) if i not in bad_indices]
keep(var, bad) ==
    LET F[i \in 0..Len(var)] ==
            IF i = 0 THEN <<>>
            ELSE IF i \in bad THEN F[i - 1]
            ELSE Append(F[i - 1], var[i])
    IN  F[Len(var)]

\* a clean_data that appends the companions as they are
clean_data_raw_companions(data, mrn, uid, dates) ==
    LET bad == bad_indices(data)
        given == SelectSeq(<<mrn, uid, dates>>, Truthy)
    IN  [j \in 1..Len(data) |-> keep(data[j], bad)]
        \o [j \in 1..Len(given) |-> given[j].items]

\* a clean_data that filters the companions by the first variable's indices
clean_data_stale_companions(data, mrn, uid, dates) ==
    LET bad == bad_indices(data)
        given == SelectSeq(<<mrn, uid, dates>>, Truthy)
    IN  [j \in 1..Len(data) |-> keep(data[j], bad)]
        \o [j \in 1..Len(given) |->
                keep(given[j].items, bad_indices_first_only(data))]

\* clean_data(*data, mrn=None, uid=None, dates=None): the returned tuple
clean_data(data, mrn, uid, dates) ==
    LET bad == bad_indices(data)
        given == SelectSeq(<<mrn, uid, dates>>, Truthy)
    IN  [j \in 1..Len(data) |-> keep(data[j], bad)]
        \o [j \in 1..Len(given) |-> keep(given[j].items, bad)]

----------------------------------------------------------------------------
(* Numbers: a float is the exact rational num/den, den > 0 *)

Abs(n) == IF n < 0 THEN -n ELSE n

RECURSIVE GCD(_, _)
GCD(a, b) == IF b = 0 THEN a ELSE GCD(b, a % b)

\* the rational n/d in lowest terms, d > 0
Q(n, d) == [num |-> n \div GCD(Abs(n), d), den |-> d \div GCD(Abs(n), d)]

\* a number of a list as a rational: an int, or a float that is one already
QOf(value) == IF "den" \in DOMAIN value THEN value ELSE Q(value.num, 1)
QLess(a, b) == a.num * b.den < b.num * a.den
QEq(a, b) == a.num * b.den = b.num * a.den
QLeq(a, b) == a.num * b.den <= b.num * a.den

\* the sum, the difference and the product of two rationals
QAdd(a, b) == Q(a.num * b.den + b.num * a.den, a.den * b.den)
QSub(a, b) == Q(a.num * b.den - b.num * a.den, a.den * b.den)
QMul(a, b) == Q(a.num * b.num, a.den * b.den)

\* the absolute value of a rational
QAbs(a) == [num |-> Abs(a.num), den |-> a.den]

\* "%0.3f" % q: q rounded to the nearest thousandth, as a number of
\* thousandths (the sign of a zero is not kept)
Fmt3(q) ==
    LET twice == 2 * 1000 * q.num
        lo == twice \div (2 * q.den)
        rest == twice - lo * 2 * q.den
    IN  IF rest < q.den THEN lo
        ELSE IF rest > q.den THEN lo + 1
        ELSE IF lo % 2 = 0 THEN lo ELSE lo + 1

----------------------------------------------------------------------------
(* dvha.tools.stats.get_control_limits *)

\* the number of standard deviations between the center line and a limit
STD_DEVS == 3

\* options.SCALAR_D = 1.128, in thousandths
SCALAR_D_MILLI == 1128

\* sum(y)
sum_of(y) ==
    LET F[i \in 0..Len(y)] ==
            IF i = 0 THEN Q(0, 1) ELSE QAdd(F[i - 1], QOf(y[i]))
    IN  F[Len(y)]

\* sum(abs(diff(y)))
sum_moving_range(y) ==
    LET F[i \in 1..Len(y)] ==
            IF i = 1 THEN Q(0, 1)
            ELSE QAdd(F[i - 1], QAbs(QSub(QOf(y[i]), QOf(y[i - 1]))))
    IN  IF Len(y) = 0 THEN Q(0, 1) ELSE F[Len(y)]

\* limits whose spread is the mean moving range taken over all n values
get_control_limits_n_ranges(y) ==
    LET n == Len(y)
        c == QMul(sum_of(y), Q(1, n))
        w == QMul(sum_moving_range(y),
                  Q(STD_DEVS * 1000, SCALAR_D_MILLI * n))
    IN  IF n < 2 THEN <<>>
        ELSE <<c, QAdd(c, w), QSub(c, w)>>

\* get_control_limits(y): (center_line, ucl, lcl), or <<>> when y is rejected:
\* a series of fewer than two values has no moving range
\*   center_line = mean(y)
\*   spread      = mean(|y[i] - y[i-1]|) / SCALAR_D
\*   ucl, lcl    = center_line +/- STD_DEVS * spread
get_control_limits(y) ==
    LET n == Len(y)
        c == QMul(sum_of(y), Q(1, n))
        w == QMul(sum_moving_range(y),
                  Q(STD_DEVS * 1000, SCALAR_D_MILLI * (n - 1)))
    IN  IF n < 2 THEN <<>>
        ELSE <<c, QAdd(c, w), QSub(c, w)>>

----------------------------------------------------------------------------
(* PlotControlChart: options and helpers *)

PLOT_COLOR == "blue"
CONTROL_CHART_OUT_OF_CONTROL_COLOR == "red"
CONTROL_CHART_CIRCLE_ALPHA == Q(3, 10)
CONTROL_CHART_OUT_OF_CONTROL_ALPHA == Q(1, 1)

\* colors = [out of control colour, plot colour], alphas likewise
colors == <<CONTROL_CHART_OUT_OF_CONTROL_COLOR, PLOT_COLOR>>
alphas == <<CONTROL_CHART_OUT_OF_CONTROL_ALPHA, CONTROL_CHART_CIRCLE_ALPHA>>

\* a two-element list indexed the other way round
pick_swapped(list, b) == list[IF b THEN 1 ELSE 2]

\* list[b] for a bool b: False is index 0, True is index 1
pick(list, b) == list[IF b THEN 2 ELSE 1]

\* ucl >= value >= lcl
in_control_inclusive(ucl, value, lcl) ==
    QLeq(QOf(value), ucl) /\ QLeq(lcl, QOf(value))

\* ucl > value > lcl
in_control(ucl, value, lcl) ==
    QLess(QOf(value), ucl) /\ QLess(lcl, QOf(value))

\* an unpacking that takes the limits of the returned tuple in the wrong order
unpack_limits_swapped(t) == [center_line |-> t[1], ucl |-> t[3], lcl |-> t[2]]

\* center_line, ucl, lcl = get_control_limits(...)
unpack_limits(t) == [center_line |-> t[1], ucl |-> t[2], lcl |-> t[3]]

\* the colours of the adjusted chart computed with inclusive limits
adj_color_inclusive(lim, residuals) ==
    [i \in 1..Len(residuals) |->
        pick(colors, in_control_inclusive(lim.ucl, residuals[i], lim.lcl))]

\* color = [colors[ucl > value > lcl] for value in y]
plot_color(lim, y) ==
    [i \in 1..Len(y) |-> pick(colors, in_control(lim.ucl, y[i], lim.lcl))]

\* alpha = [alphas[ucl > value > lcl] for value in y]
plot_alpha(lim, y) ==
    [i \in 1..Len(y) |-> pick(alphas, in_control(lim.ucl, y[i], lim.lcl))]

\* color = [colors[ucl > value > lcl] for value in residuals]
adj_color(lim, residuals) ==
    [i \in 1..Len(residuals) |->
        pick(colors, in_control(lim.ucl, residuals[i], lim.lcl))]

\* alpha = [alphas[ucl > value > lcl] for value in residuals]
adj_alpha(lim, residuals) ==
    [i \in 1..Len(residuals) |->
        pick(alphas, in_control(lim.ucl, residuals[i], lim.lcl))]

\* min(x), max(x) of a non-empty list of numbers
min_of(x) == CHOOSE v \in {x[i] : i \in 1..Len(x)} :
                \A i \in 1..Len(x) : v.num <= x[i].num
max_of(x) == CHOOSE v \in {x[i] : i \in 1..Len(x)} :
                \A i \in 1..Len(x) : v.num >= x[i].num

\* {'x': [x[0], x[-1], x[-1], x[0]], 'y': [ucl, ucl, lcl, lcl]}
patch_data(x, lim) ==
    [x |-> <<x[1], x[Len(x)], x[Len(x)], x[1]>>,
     y |-> <<lim.ucl, lim.ucl, lim.lcl, lim.lcl>>]

\* {'x': [min(x), max(x)], 'y': [level] * 2, 'mrn': ['center line'] * 2}
line_data(x, level) ==
    [x |-> <<min_of(x), max_of(x)>>,
     y |-> <<level, level>>,
     mrn |-> <<Str("center line"), Str("center line")>>]

\* Plot.clear_source: every column of the source becomes []
clear_source(data) == [data_key \in DOMAIN data |-> <<>>]

\* sources that keep their data
sources_not_cleared(src) == src

\* Plot.clear_sources
cleared_sources(src) == [key \in DOMAIN src |-> clear_source(src[key])]

\* what update_plot would leave were the texts not reset: they keep the
\* limits of the call before
div_not_cleared(d) == d

\* the text of a Div: '' is <<>>, "<b>L</b>:" is <<L>>,
\* "<b>L</b>: %0.3f" % v is <<L, thousandths of v>>
div_cleared(d) ==
    [d EXCEPT !.center_line = <<"Center line">>,
              !.ucl = <<"UCL">>,
              !.lcl = <<"LCL">>,
              !.adj_center_line = <<"Center line">>,
              !.adj_ucl = <<"UCL">>,
              !.adj_lcl = <<"LCL">>]

----------------------------------------------------------------------------
(* numpy, as PlotTimeSeries calls it *)

\* a date of the time axis: the number of its day
Date(d) == [kind |-> "date", day |-> d]

\* the list s, ascending, with the number v put in its place
insert_sorted(s, v) ==
    LET k == Cardinality({i \in 1..Len(s) : s[i].num <= v.num})
    IN  SubSeq(s, 1, k) \o <<v>> \o SubSeq(s, k + 1, Len(s))

\* np.sort(a)
sorted(a) ==
    LET F[i \in 0..Len(a)] ==
            IF i = 0 THEN <<>> ELSE insert_sorted(F[i - 1], a[i])
    IN  F[Len(a)]

\* np.percentile(a, q) for a non-empty a and 0 <= q <= 100: the value at the
\* place q/100 * (n - 1) of the sorted values, places counted from 0, found
\* by linear interpolation between the two neighbouring values
np_percentile(a, q) ==
    LET s == sorted(a)
        n == Len(s)
        place == Q(q.num * (n - 1), q.den * 100)
        below == place.num \div place.den
        above == IF below + 1 > n - 1 THEN n - 1 ELSE below + 1
        part == place.num - below * place.den
    IN  Q(s[below + 1].num * place.den
            + part * (s[above + 1].num - s[below + 1].num),
          place.den)

\* the range of np.histogram(a, bins): from min(a) to max(a); from 0 to 1
\* when a is empty; from min(a) - 0.5 to max(a) + 0.5 when all the values
\* are equal
histogram_range(a) ==
    LET s == sorted(a)
    IN  IF Len(a) = 0 THEN <<Q(0, 1), Q(1, 1)>>
        ELSE IF s[1].num = s[Len(s)].num
        THEN <<Q(2 * s[1].num - 1, 2), Q(2 * s[1].num + 1, 2)>>
        ELSE <<Q(s[1].num, 1), Q(s[Len(s)].num, 1)>>

\* the edges of bins intervals of equal width from first to last
edges_between(first, last, bins) ==
    [j \in 1..(bins + 1) |->
        Q((bins - (j - 1)) * first.num * last.den
            + (j - 1) * last.num * first.den,
          bins * first.den * last.den)]

\* bins[j] of np.histogram(a, bins), j counted from 0 in the source and
\* from 1 here
histogram_bins(a, bins) ==
    edges_between(histogram_range(a)[1], histogram_range(a)[2], bins)

\* the number of values of each interval between the edges e: an interval
\* is closed on the left and open on the right, the last one is closed on
\* both sides
counts_between(a, e, bins) ==
    [j \in 1..bins |->
        Cardinality({i \in 1..Len(a) :
            /\ QLeq(e[j], QOf(a[i]))
            /\ \/ QLess(QOf(a[i]), e[j + 1])
               \/ j = bins /\ QEq(QOf(a[i]), e[j + 1])})]

\* hist of np.histogram(a, bins)
histogram_counts(a, bins) == counts_between(a, histogram_bins(a, bins), bins)

----------------------------------------------------------------------------
(* dvha.tools.utilities: collapse_into_single_dates and moving_avg *)

\* the days of the dates x, each once, in chronological order
distinct_days(x) ==
    LET days == {x[i].day : i \in 1..Len(x)}
        F[i \in 0..Cardinality(days)] ==
            IF i = 0 THEN <<>>
            ELSE Append(F[i - 1],
                        CHOOSE d \in days :
                            Cardinality({e \in days : e < d}) = i - 1)
    IN  F[Cardinality(days)]

\* the mean of the values y observed on day d
mean_on_day(x, y, d) ==
    LET on_day == {i \in 1..Len(x) : x[i].day = d}
        F[i \in 0..Len(y)] ==
            IF i = 0 THEN 0
            ELSE IF i \in on_day THEN F[i - 1] + y[i].num ELSE F[i - 1]
    IN  Q(F[Len(y)], Cardinality(on_day))

\* collapse_into_single_dates(x, y): one point for each distinct date, in
\* chronological order, whose value is the mean of the values of that date
collapse_into_single_dates(x, y) ==
    LET days == distinct_days(x)
    IN  [x |-> [j \in 1..Len(days) |-> Date(days[j])],
         y |-> [j \in 1..Len(days) |-> mean_on_day(x, y, days[j])]]

\* the sum of the rationals ys[from..to]
q_sum(ys, from, to) ==
    LET F[i \in (from - 1)..to] ==
            IF i = from - 1 THEN Q(0, 1) ELSE QAdd(F[i - 1], ys[i])
    IN  F[to]

\* a moving average that leaves out the first point it would give
moving_avg_without_first(collapsed, avg_len) ==
    LET n == Len(collapsed.x)
        m == IF n >= avg_len THEN n - avg_len ELSE 0
    IN  <<[j \in 1..m |-> collapsed.x[j + avg_len]],
          [j \in 1..m |->
              QMul(q_sum(collapsed.y, j + 1, j + avg_len), Q(1, avg_len))]>>

\* moving_avg(data_collapsed, avg_len): (x_trend, y_trend), the mean of the
\* last avg_len points at each point that has avg_len points up to it
moving_avg(collapsed, avg_len) ==
    LET n == Len(collapsed.x)
        m == IF n >= avg_len THEN n - avg_len + 1 ELSE 0
    IN  <<[j \in 1..m |-> collapsed.x[j + avg_len - 1]],
          [j \in 1..m |->
              QMul(q_sum(collapsed.y, j, j + avg_len - 1), Q(1, avg_len))]>>

----------------------------------------------------------------------------
(* PlotTimeSeries: helpers *)

\* valid_indices = [i for i, value in enumerate(y) if value != 'None']
valid_indices(y) == {i \in 1..Len(y) : ~IsNoneStr(y[i])}

\* [value for i, value in enumerate(var) if i in valid_indices]
only_valid(var, valid) == keep(var, (1..Len(var)) \ valid)

\* plot data whose identifiers are not filtered
update_plot_data_unfiltered_ids(x, y, mrn, uid) ==
    LET valid == valid_indices(y)
    IN  [x |-> only_valid(x, valid), y |-> only_valid(y, valid),
         mrn |-> mrn, uid |-> uid]

\* update_plot_data(x, y, mrn, uid): the data of source['plot']
update_plot_data(x, y, mrn, uid) ==
    LET valid == valid_indices(y)
    IN  [x |-> only_valid(x, valid), y |-> only_valid(y, valid),
         mrn |-> only_valid(mrn, valid), uid |-> only_valid(uid, valid)]

\* the fraction of an interval that a bar of the histogram covers
width_fraction == Q(9, 10)

\* {'x': center, 'top': hist, 'width': width}
bars(bins, hist, bin_size) ==
    [x |-> [j \in 1..bin_size |->
                QMul(QAdd(bins[j], bins[j + 1]), Q(1, 2))],
     top |-> hist,
     width |-> [j \in 1..bin_size |->
                QMul(width_fraction, QSub(bins[2], bins[1]))]]

\* update_histogram(bin_size): the data of source['hist']
hist_data(y, bin_size) ==
    bars(histogram_bins(y, bin_size), histogram_counts(y, bin_size), bin_size)

\* a band whose bounds are taken the other way round
percentile_band_swapped(y, percentile) ==
    [upper |-> np_percentile(y, Q(100 - percentile, 2)),
     average |-> np_percentile(y, Q(50, 1)),
     lower |-> np_percentile(y, Q(100 + percentile, 2))]

\* upper_bound, average, lower_bound of update_trend:
\* np.percentile(y_np, 50. + percentile / 2.), np.percentile(y_np, 50),
\* np.percentile(y_np, 50. - percentile / 2.)
percentile_band(y, percentile) ==
    [upper |-> np_percentile(y, Q(100 + percentile, 2)),
     average |-> np_percentile(y, Q(50, 1)),
     lower |-> np_percentile(y, Q(100 - percentile, 2))]

\* a trend taken over the raw points, one for each study
trend_of_raw_points(x, y, avg_len) ==
    moving_avg([x |-> x, y |-> [i \in 1..Len(y) |-> QOf(y[i])]], avg_len)

\* x_trend, y_trend = moving_avg(collapse_into_single_dates(x, y), avg_len)
trend_of(x, y, avg_len) ==
    moving_avg(collapse_into_single_dates(x, y), avg_len)

\* update_trend(avg_len, percentile): the sources after the call
trend_sources(src, avg_len, percentile) ==
    LET x == src.plot.x
        y == src.plot.y
        trend == trend_of(x, y, avg_len)
        band == percentile_band(y, percentile)
    IN  IF Len(x) > 0 /\ Len(y) > 0
        THEN [src EXCEPT
                !.trend = [x |-> trend[1], y |-> trend[2],
                           mrn |-> [j \in 1..Len(trend[1]) |-> Str("Avg")]],
                !.bound = [x |-> <<x[1], x[Len(x)]>>,
                           mrn |-> <<Str("Series Avg"), Str("Series Avg")>>,
                           upper |-> <<band.upper, band.upper>>,
                           avg |-> <<band.average, band.average>>,
                           lower |-> <<band.lower, band.lower>>,
                           y |-> <<band.average, band.average>>],
                !.patch = [x |-> <<x[1], x[Len(x)], x[Len(x)], x[1]>>,
                           y |-> <<band.upper, band.upper,
                                   band.lower, band.lower>>]]
        ELSE src

\* PlotTimeSeries.__init__: the sources, the labels and the page shown
TimeSeriesInit ==
    [source |->
        [plot |-> [x |-> <<>>, y |-> <<>>, mrn |-> <<>>, uid |-> <<>>],
         hist |-> [x |-> <<>>, top |-> <<>>, width |-> <<>>],
         trend |-> [x |-> <<>>, y |-> <<>>, mrn |-> <<>>],
         bound |-> [x |-> <<>>, mrn |-> <<>>, upper |-> <<>>, avg |-> <<>>,
                    lower |-> <<>>],
         patch |-> [x |-> <<>>, y |-> <<>>]],
     y_axis_label |-> "",
     axis_label |-> [x |-> "Simulation Date", y |-> "Y Axis"],
     histogram_axis_label |-> [x |-> "", y |-> "Frequency"],
     raised |-> ""]

----------------------------------------------------------------------------
(* dvha.tools.stats.MultiVariableRegression *)

\* a float that is not a number, and an infinite float
NaN == [kind |-> "nan"]
Inf == [kind |-> "inf"]
IsNaN(value) == value.kind = "nan"

\* a statistic of a fit whose value is not computed here: the standard
\* error, the t-value or the p-value of coefficient j (0 is the intercept),
\* a quantile of the normal distribution, an end of the 45 degree line
Stat(name, j) == [kind |-> "stat", stat |-> name, of |-> j]

\* an attribute that a fit does not have
Omitted == [kind |-> "omitted"]

\* the sum over the studies of f(i)
SumOver(n, f(_)) ==
    LET F[i \in 0..n] == IF i = 0 THEN 0 ELSE F[i - 1] + f(i)
    IN  F[n]

\* the sum of a list of rationals
QSumOver(n, f(_)) ==
    LET F[i \in 0..n] == IF i = 0 THEN Q(0, 1) ELSE QAdd(F[i - 1], f(i))
    IN  F[n]

\* n times the sum of the products of the deviations of a and b from their
\* means: n * sum(a * b) - sum(a) * sum(b)
Cross(n, a(_), b(_)) ==
    n * SumOver(n, LAMBDA i : a(i) * b(i))
        - SumOver(n, a) * SumOver(n, b)

\* the numerators of the k slopes and the determinant that divides them,
\* from the normal equations of the centred variables (k is 1 or 2)
normal_equations(X, y, k) ==
    LET n == Len(y)
        x1(i) == X[i][1].num
        x2(i) == X[i][2].num
        yy(i) == y[i].num
    IN  IF k = 1
        THEN [det |-> Cross(n, x1, x1), slope |-> <<Cross(n, x1, yy)>>]
        ELSE [det |-> Cross(n, x1, x1) * Cross(n, x2, x2)
                        - Cross(n, x1, x2) * Cross(n, x1, x2),
              slope |-> <<Cross(n, x1, yy) * Cross(n, x2, x2)
                            - Cross(n, x2, yy) * Cross(n, x1, x2),
                          Cross(n, x2, yy) * Cross(n, x1, x1)
                            - Cross(n, x1, yy) * Cross(n, x1, x2)>>]

\* the fitted value of study i, over the denominator n * det:
\*   mean(y) + sum_j slope[j] * (x[i][j] - mean(x[.][j]))
fitted_numerator(X, y, k, eq, i) ==
    LET n == Len(y)
    IN  eq.det * SumOver(n, LAMBDA r : y[r].num)
        + SumOver(k, LAMBDA j :
            eq.slope[j]
                * (n * X[i][j].num - SumOver(n, LAMBDA r : X[r][j].num)))

\* the rationals of a list in ascending order
q_sorted(a) ==
    LET F[i \in 0..Len(a)] ==
            IF i = 0 THEN <<>>
            ELSE LET k == Cardinality({r \in 1..(i - 1) :
                                        QLeq(F[i - 1][r], a[i])})
                 IN  SubSeq(F[i - 1], 1, k) \o <<a[i]>>
                        \o SubSeq(F[i - 1], k + 1, i - 1)
    IN  F[Len(a)]

\* the least-squares fit of y on the k columns of X and an intercept, when
\* the data are enough and not degenerate
least_squares(X, y, k) ==
    LET n == Len(y)
        eq == normal_equations(X, y, k)
        sign == IF eq.det < 0 THEN -1 ELSE 1
        slope == [j \in 1..k |-> Q(sign * eq.slope[j], sign * eq.det)]
        predictions ==
            [i \in 1..n |->
                Q(sign * fitted_numerator(X, y, k, eq, i), sign * n * eq.det)]
        residuals == [i \in 1..n |-> QSub(QOf(y[i]), predictions[i])]
        ss_res == QSumOver(n, LAMBDA i : QMul(residuals[i], residuals[i]))
        ss_tot == Q(Cross(n, LAMBDA i : y[i].num, LAMBDA i : y[i].num), n)
        ss_reg == QSub(ss_tot, ss_res)
    IN  [kind |-> "fit",
         n |-> n,
         k |-> k,
         slope |-> slope,
         y_intercept |->
            QSub(Q(SumOver(n, LAMBDA r : y[r].num), n),
                 QSumOver(k, LAMBDA j :
                    QMul(slope[j],
                         Q(SumOver(n, LAMBDA r : X[r][j].num), n)))),
         predictions |-> predictions,
         residuals |-> residuals,
         r_sq |-> IF ss_tot.num = 0 THEN Q(1, 1)
                  ELSE QSub(Q(1, 1), QMul(ss_res, Q(ss_tot.den, ss_tot.num))),
         mse |-> QMul(ss_res, Q(1, n)),
         sd_b |-> [j \in 1..(k + 1) |-> Stat("std_err", j - 1)],
         ts_b |-> [j \in 1..(k + 1) |-> Stat("t_value", j - 1)],
         p_values |-> [j \in 1..(k + 1) |-> Stat("p_value", j - 1)],
         f_stat |-> IF k <= 1 THEN Omitted
                    ELSE IF ss_res.num = 0 THEN Inf
                    ELSE QMul(QMul(ss_reg, Q(1, k)),
                              Q((n - k - 1) * ss_res.den, ss_res.num)),
         f_p_value |-> IF k <= 1 THEN Omitted ELSE Stat("f_p_value", 0),
         norm_prob_plot |->
            <<[i \in 1..n |-> Stat("quantile", i)], q_sorted(residuals)>>,
         x_trend_prob |-> <<Stat("x_trend_prob", 1), Stat("x_trend_prob", 2)>>,
         y_trend_prob |-> <<Stat("y_trend_prob", 1), Stat("y_trend_prob", 2)>>]

\* the outcome of a constructor that raises
Raised(error) == [kind |-> "error", error |-> error]

\* some entry of the n rows of k columns X or of y is not a finite number
non_finite(X, y, k) ==
    \/ \E i \in 1..Len(y) : y[i].kind # "num"
    \/ \E i \in 1..Len(X) : \E j \in 1..k : X[i][j].kind # "num"

\* a constructor that accepts every sample with more studies than predictors
MultiVariableRegression_n_above_k(X, y, k) ==
    IF Len(y) <= k \/ non_finite(X, y, k)
    THEN Raised("InsufficientDataError")
    ELSE IF normal_equations(X, y, k).det = 0
    THEN Raised("NumericInstabilityError")
    ELSE least_squares(X, y, k)

\* MultiVariableRegression(X, y) for X of k columns: the fit, or the error
\* raised: InsufficientDataError when the sample has no residual degree of
\* freedom (n <= k + 1) or holds a value that is not finite,
\* NumericInstabilityError when the design matrix is singular
MultiVariableRegression(X, y, k) ==
    IF Len(y) <= k + 1 \/ non_finite(X, y, k)
    THEN Raised("InsufficientDataError")
    ELSE IF normal_equations(X, y, k).det = 0
    THEN Raised("NumericInstabilityError")
    ELSE least_squares(X, y, k)

\* reg.predict(X_new): X_new . slope + y_intercept, one value for each row
predict(reg, X_new) ==
    [i \in 1..Len(X_new) |->
        QAdd(QSumOver(reg.k, LAMBDA j : QMul(QOf(X_new[i][j]), reg.slope[j])),
             reg.y_intercept)]

----------------------------------------------------------------------------
(* PlotRegression: helpers *)

\* min(x) and max(x) of Python for a non-empty list of floats: a comparison
\* with nan is false, so a nan is kept only when it comes first
py_min(x) ==
    LET F[i \in 1..Len(x)] ==
            IF i = 1 THEN x[1]
            ELSE IF IsNaN(x[i]) \/ IsNaN(F[i - 1]) THEN F[i - 1]
            ELSE IF x[i].num < F[i - 1].num THEN x[i] ELSE F[i - 1]
    IN  F[Len(x)]
py_max(x) ==
    LET F[i \in 1..Len(x)] ==
            IF i = 1 THEN x[1]
            ELSE IF IsNaN(x[i]) \/ IsNaN(F[i - 1]) THEN F[i - 1]
            ELSE IF x[i].num > F[i - 1].num THEN x[i] ELSE F[i - 1]
    IN  F[Len(x)]

\* min and max of a non-empty list of rationals
q_min(a) == q_sorted(a)[1]
q_max(a) == q_sorted(a)[Len(a)]

\* the columns of data = np.array([y, x]) without a nan:
\* ~np.any(np.isnan(data), axis=0)
nan_free(x, y) == {i \in 1..Len(y) : ~IsNaN(x[i]) /\ ~IsNaN(y[i])}

\* a design matrix that keeps every column of data
design_unmasked(x, y) ==
    [X |-> [i \in 1..Len(x) |-> <<x[i]>>], y |-> y]

\* X = np.transpose(clean_data[1:]) and y = clean_data[0]
design(x, y) ==
    LET kept == nan_free(x, y)
    IN  [X |-> only_valid([i \in 1..Len(x) |-> <<x[i]>>], kept),
         y |-> only_valid(y, kept)]

\* a trend line with the slope and the intercept taken for each other
y_trend_swapped(x_trend, slope, y_intercept) ==
    [j \in 1..Len(x_trend) |->
        IF IsNaN(x_trend[j]) THEN NaN
        ELSE QAdd(QMul(QOf(x_trend[j]), y_intercept), slope[1])]

\* y_trend = np.add(np.multiply(x_trend, self.reg.slope), self.reg.y_intercept)
y_trend_of(x_trend, slope, y_intercept) ==
    [j \in 1..Len(x_trend) |->
        IF IsNaN(x_trend[j]) THEN NaN
        ELSE QAdd(QMul(QOf(x_trend[j]), slope[1]), y_intercept)]

\* "%0.3f" % value for a float that may be infinite
Fmt3f(value) == IF "kind" \in DOMAIN value THEN value ELSE Fmt3(value)

\* 'fit_param': ["R²: %0.3f" % self.reg.r_sq, "MSE: %0.3f" % self.reg.mse]
regression_fit_param(reg) ==
    <<<<"R²", Fmt3f(reg.r_sq)>>, <<"MSE", Fmt3f(reg.mse)>>>>

\* a table whose coefficients are in the other order
regression_table_swapped(reg, x_var) ==
    [var |-> <<"y-int", x_var>>,
     coef |-> <<reg.slope, reg.y_intercept>>,
     std_err |-> reg.sd_b,
     t_value |-> reg.ts_b,
     p_value |-> reg.p_values,
     spacer |-> <<"", "">>,
     fit_param |-> regression_fit_param(reg)]

\* the data of source['table'] of PlotRegression.update_trend
regression_table(reg, x_var) ==
    [var |-> <<"y-int", x_var>>,
     coef |-> <<reg.y_intercept, reg.slope>>,
     std_err |-> reg.sd_b,
     t_value |-> reg.ts_b,
     p_value |-> reg.p_values,
     spacer |-> <<"", "">>,
     fit_param |-> regression_fit_param(reg)]

\* the sources that show the residuals and the normal probability plot of a
\* fit, the same in PlotRegression and in PlotMultiVarRegression
residual_sources(src, reg, mrn, date) ==
    [src EXCEPT
        !.residuals = [x |-> reg.predictions, y |-> reg.residuals,
                       mrn |-> mrn, date |-> date],
        !.residuals_zero = [x |-> <<q_min(reg.predictions),
                                    q_max(reg.predictions)>>,
                            y |-> <<Num(0), Num(0)>>,
                            mrn |-> <<PyNone, PyNone>>],
        !.prob = [x |-> reg.norm_prob_plot[1], y |-> reg.norm_prob_plot[2]],
        !.prob_45 = [x |-> reg.x_trend_prob, y |-> reg.y_trend_prob]]

\* the rows that get_csv_model adds below the rows of the table
regression_csv_fit(reg) == <<<<"R^2", reg.r_sq>>, <<"MSE", reg.mse>>>>

\* the sources of the two regression plots at their construction, but for
\* the name of the column of the dates of the plot source
fit_sources(date_key) ==
    [plot |-> [key \in {"x", "y", "mrn", "uid", date_key} |-> <<>>],
     trend |-> [x |-> <<>>, y |-> <<>>, mrn |-> <<>>],
     residuals |-> [x |-> <<>>, y |-> <<>>, mrn |-> <<>>, date |-> <<>>],
     residuals_zero |-> [x |-> <<>>, y |-> <<>>, mrn |-> <<>>],
     prob |-> [x |-> <<>>, y |-> <<>>, mrn |-> <<>>],
     prob_45 |-> [x |-> <<>>, y |-> <<>>],
     table |-> [var |-> <<>>, coef |-> <<>>, std_err |-> <<>>,
                t_value |-> <<>>, p_value |-> <<>>, spacer |-> <<>>,
                fit_param |-> <<>>]]

\* no call of MultiVariableRegression has been made
NotHanded == [X |-> PyNone, y |-> PyNone]

\* PlotRegression.__init__; handed is the X and y of its last call of
\* MultiVariableRegression; page is what the WebView shows (html_str):
\* "blank" before the first rendering, "current" when it was rendered from
\* the present sources and labels, "outdated" when they changed since
RegressionInit ==
    [source |-> fit_sources("dates"),
     x_axis_title |-> "",
     y_axis_title |-> "",
     axis_label |-> [x |-> "X Axis", y |-> "Y Axis"],
     reg |-> PyNone,
     handed |-> NotHanded,
     raised |-> "",
     page |-> "blank"]

----------------------------------------------------------------------------
(* PlotMultiVarRegression: helpers *)

\* the studies of stats_data with the sentinel in a selected variable
missing_in(stats_data, variables) ==
    UNION {none_indices(stats_data.data[variables[j]]) :
                j \in 1..Len(variables)}

\* stats_data.get_X_and_y(y_variable, x_variables, include_patient_info=True):
\* X, y, mrn, uid, dates of the studies with a value for every selected
\* variable, in the order of the data
get_X_and_y(stats_data, y_variable, x_variables) ==
    LET bad == missing_in(stats_data, <<y_variable>> \o x_variables)
        n == Len(stats_data.data[y_variable])
    IN  [X |-> keep([i \in 1..n |->
                        [j \in 1..Len(x_variables) |->
                            stats_data.data[x_variables[j]][i]]], bad),
         y |-> keep(stats_data.data[y_variable], bad),
         mrn |-> keep(stats_data.mrn, bad),
         uid |-> keep(stats_data.uid, bad),
         dates |-> keep(stats_data.dates, bad)]

\* what reading self.reg.f_stat for "%0.3f" can raise when the fit has no
\* F statistic: the attribute is missing, or it is None
FStatErrors == {"AttributeError", "TypeError"}

\* fit_param of PlotMultiVarRegression.update_plot: x_len + 1 entries, the
\* first two filled in
multi_var_fit_param(reg, x_len) ==
    [j \in 1..(x_len + 1) |->
        IF j = 1 THEN <<"R²", Fmt3f(reg.r_sq), "MSE", Fmt3f(reg.mse)>>
        ELSE IF j = 2 THEN <<"f stat", Fmt3f(reg.f_stat),
                             "p value", reg.f_p_value>>
        ELSE <<>>]

\* the data of source['table'] of PlotMultiVarRegression.update_plot
multi_var_table(reg, x_variables) ==
    [var |-> <<"y-int">> \o x_variables,
     coef |-> <<reg.y_intercept>> \o reg.slope,
     std_err |-> reg.sd_b,
     t_value |-> reg.ts_b,
     p_value |-> reg.p_values,
     spacer |-> [j \in 1..(Len(x_variables) + 1) |-> ""],
     fit_param |-> multi_var_fit_param(reg, Len(x_variables))]

\* the rows that PlotMultiVarRegression.get_csv_model adds below the rows
\* of the table
multi_var_csv_fit(reg) ==
    <<<<"R^2", reg.r_sq>>, <<"MSE", reg.mse>>,
      <<"f-stat", reg.f_stat>>, <<"f p-value", reg.f_p_value>>>>

\* PlotMultiVarRegression.__init__
MultiVarInit ==
    [source |-> fit_sources("date"),
     X |-> PyNone, y |-> PyNone,
     x_variables |-> PyNone, y_variable |-> PyNone, stats_data |-> PyNone,
     mrn |-> PyNone, uid |-> PyNone, dates |-> PyNone,
     reg |-> PyNone,
     axis_label |-> [x |-> "X Axis", y |-> "Y Axis"],
     raised |-> "",
     page |-> "blank"]

----------------------------------------------------------------------------
(* DVHAMainFrame: helpers *)

\* the keys of the notebook tabs, and the two filter tables
tab_keys ==
    <<"Welcome", "DVHs", "Endpoints", "Rad Bio", "Time Series", "Regression",
      "Control Chart">>
TabKeys == {tab_keys[i] : i \in 1..Len(tab_keys)}
QueryTypes == {"categorical", "numerical"}

\* the texts of the message boxes
NoDataToSave == "There is no data to save. Please query/open some data first."
NoDVHsReturned == "No DVHs returned. Please modify query or import more data."

\* DVH(dvh_condition=dvh_str, uid=uids): a query result of count DVHs
DVH(count) == [kind |-> "DVH", count |-> count]

\* a Python dict is a function of its keys; d[key] = value
EmptyDict == [key \in {} |-> PyNone]
set_item(d, key, value) ==
    [k \in DOMAIN d \cup {key} |-> IF k = key THEN value ELSE d[k]]

\* a DataTable: data is None, or holds the rows
DataTable(data) == [data |-> data]
row_count(table) ==
    IF table.data = PyNone THEN 0 ELSE Len(table.data.items)

\* query_dlg(self, query_type) answered with OK: the table has one row more
append_row(table) ==
    DataTable(PyList(IF table.data = PyNone THEN <<Str("filter")>>
                     ELSE Append(table.data.items, Str("filter"))))

\* DataTable.delete_row(index) for an index of the table
delete_row(table, index) ==
    DataTable(PyList(SubSeq(table.data.items, 1, index.num)
                        \o SubSeq(table.data.items, index.num + 2,
                                  Len(table.data.items))))

\* DataTable.delete_all_rows()
delete_all_rows(table) ==
    IF table.data = PyNone THEN table ELSE DataTable(PyList(<<>>))

\* index is the index of a row of the table
IsRowOf(index, table) ==
    index # PyNone /\ index.num >= 0 /\ index.num < row_count(table)

\* __enable_notebook_tabs()
enable_notebook_tabs(self) ==
    [self EXCEPT
        !.notebook_tab =
            [key \in TabKeys |->
                IF key \in {"Regression", "Control Chart"}
                THEN self.dvh.count > 1
                ELSE TRUE]]

\* __disable_notebook_tabs()
disable_notebook_tabs(self) ==
    [self EXCEPT
        !.notebook_tab =
            [key \in TabKeys |->
                IF key # "Welcome" THEN FALSE ELSE self.notebook_tab[key]]]

\* the loop of update_all_query_buttons over the two tables
update_buttons_of_tables(self) ==
    [self EXCEPT
        !.button =
            [key \in QueryTypes |->
                IF self.data_table[key].data # PyNone
                    /\ row_count(self.data_table[key]) > 0
                THEN [del |-> TRUE, edit |-> TRUE]
                ELSE [del |-> FALSE, edit |-> FALSE]]]

\* update_all_query_buttons()
update_all_query_buttons(self) ==
    [update_buttons_of_tables(self) EXCEPT
        !.button_query_execute =
            row_count(self.data_table.numerical)
                + row_count(self.data_table.categorical) > 0]

\* a handler starts: no message box is shown yet, nothing is raised
handling(self) ==
    [self EXCEPT !.message = "", !.raised = "", !.written = FALSE]

\* exec_query from `if self.dvh.count:` on
exec_query_count(self) ==
    IF self.dvh = PyNone
    THEN [self EXCEPT !.raised = "AttributeError"]
    ELSE IF self.dvh.count > 0
    THEN [enable_notebook_tabs(self) EXCEPT
             !.selection = 1,
             !.save_data =
                 set_item(set_item(self.save_data, "main_categorical",
                                   self.data_table.categorical),
                          "main_numerical", self.data_table.numerical)]
    ELSE [self EXCEPT !.message = NoDVHsReturned, !.dvh = PyNone]

\* exec_query(load_saved_dvh_data): dvh is what DVH(...) gives for the
\* filters of the tables
exec_query(self, load_saved_dvh_data, dvh) ==
    exec_query_count(IF load_saved_dvh_data THEN self
                     ELSE [self EXCEPT !.dvh = dvh])

\* close()
close(self) ==
    [disable_notebook_tabs(self) EXCEPT
        !.dvh = PyNone,
        !.data_table =
            [key \in QueryTypes |-> delete_all_rows(self.data_table[key])],
        !.selection = 0,
        !.button = [key \in QueryTypes |-> [del |-> FALSE, edit |-> FALSE]],
        !.button_query_execute = FALSE]

\* on_close(evt): res is the answer to "Clear all data and plots?"
on_close(self, res) ==
    IF self.dvh # PyNone /\ res = "YES" THEN close(self) ELSE self

\* save_data_obj(): the entries of the frames of the tabs are left out
save_data_obj(self) ==
    [self EXCEPT !.save_data = set_item(self.save_data, "dvh", self.dvh)]

\* save_object_to_file(self.save_data, dlg.GetPath())
save_object_to_file(self) ==
    [self EXCEPT !.file = self.save_data, !.written = TRUE]

\* on_save(evt): res is the answer of the file dialog
on_save(self, res) ==
    IF DOMAIN self.save_data # {}
    THEN IF res = "OK" THEN save_object_to_file(save_data_obj(self))
         ELSE self
    ELSE [self EXCEPT !.message = NoDataToSave]

\* load_data_obj(abs_file_path) up to exec_query(load_saved_dvh_data=True)
load_data_obj(self) ==
    exec_query(
        update_all_query_buttons(
            [self EXCEPT
                !.save_data = self.file,
                !.dvh = self.file["dvh"],
                !.data_table =
                    [categorical |-> self.file["main_categorical"],
                     numerical |-> self.file["main_numerical"]]]),
        TRUE, PyNone)

\* on_open(evt): res is the answer of the file dialog, which asks for a
\* file that exists
on_open(self, res) ==
    IF res = "OK" THEN load_data_obj(close(self)) ELSE self

\* on_item_select_categorical(evt), on_item_select_numerical(evt):
\* GetFirstSelected() gives index
on_item_select(self, query_type, index) ==
    [self EXCEPT !.selected_index[query_type] = Num(index)]

\* add_row_categorical(evt), add_row_numerical(evt): res is the answer of
\* the dialog of query_dlg
add_row(self, query_type, res) ==
    update_all_query_buttons(
        [self EXCEPT
            !.data_table[query_type] =
                IF res = "OK" THEN append_row(@) ELSE @,
            !.button_query_execute =
                IF query_type = "categorical" THEN TRUE ELSE @])

\* del_row_categorical(evt), del_row_numerical(evt); delete_row called
\* with an index that is no row of the table either raises or does nothing
del_row(self, query_type, outcome) ==
    IF IsRowOf(self.selected_index[query_type], self.data_table[query_type])
    THEN update_all_query_buttons(
            [self EXCEPT
                !.data_table[query_type] =
                    delete_row(@, self.selected_index[query_type]),
                !.selected_index[query_type] = PyNone])
    ELSE IF outcome = "raises"
    THEN [self EXCEPT
             !.raised = IF self.selected_index[query_type] = PyNone
                        THEN "TypeError" ELSE "IndexError"]
    ELSE update_all_query_buttons(
            [self EXCEPT !.selected_index[query_type] = PyNone])

\* the main frame after __init__
MainFrameInit ==
    [dvh |-> PyNone,
     save_data |-> EmptyDict,
     selected_index |-> [key \in QueryTypes |-> PyNone],
     data_table |-> [key \in QueryTypes |-> DataTable(PyNone)],
     notebook_tab |-> [key \in TabKeys |-> key = "Welcome"],
     selection |-> 0,
     button |-> [key \in QueryTypes |-> [del |-> FALSE, edit |-> FALSE]],
     button_query_execute |-> FALSE,
     message |-> "",
     raised |-> "",
     file |-> PyNone,
     written |-> FALSE]

----------------------------------------------------------------------------
(* Options: helpers *)

\* two of the options of DefaultOptions stand for all of them
MIN_BORDER == 50

\* the __dict__ of an object after DefaultOptions.__init__
DefaultOptions == [MIN_BORDER |-> Num(MIN_BORDER), PLOT_COLOR |-> Str("blue")]

\* the values the user settings give to an option
OptionValues ==
    [MIN_BORDER |-> {Num(MIN_BORDER), Num(MIN_BORDER + 10)},
     PLOT_COLOR |-> {Str("blue"), Str("red")}]

\* an attribute set_option can create and DefaultOptions does not have
USER_OPTION == "USER_OPTION"

\* a key of the options file of another version of the program
LEGACY_OPTION == "LEGACY_OPTION"

\* os.path.isfile: a path with no file holds None
isfile(path) == path # PyNone

\* pickle.dump: the bytes written for a dictionary
pickle_dump(obj) == [kind |-> "bytes", pickle |-> obj, complete |-> TRUE]

\* pickle.load: the dictionary of the bytes, EOFError when they end early
pickle_load(infile) ==
    IF infile.complete THEN infile.pickle ELSE Raised("EOFError")

\* hashlib.md5(str(bytes).encode('utf-8')).hexdigest(): one digest for each
\* content
hexdigest(options_str) == [kind |-> "md5", of |-> options_str]

\* open(path, 'wb') and the write: a new file can be read, a file that is
\* there keeps its permissions
write_file(path, bytes) ==
    [bytes |-> bytes, readable |-> IF isfile(path) THEN path.readable ELSE TRUE]

\* staticmethod calculate_checksum
calculate_checksum(disk) ==
    IF isfile(disk.OPTIONS_PATH)
    THEN IF disk.OPTIONS_PATH.readable
         THEN hexdigest(disk.OPTIONS_PATH.bytes)
         ELSE Raised("PermissionError")
    ELSE PyNone

\* staticmethod load_stored_checksum
load_stored_checksum(disk) ==
    IF isfile(disk.OPTIONS_CHECKSUM_PATH)
    THEN disk.OPTIONS_CHECKSUM_PATH
    ELSE PyNone

\* validate_options_file with its test left out
accept_options_file(disk) == TRUE

\* validate_options_file: an exception of either read is caught
validate_options_file(disk) ==
    IF calculate_checksum(disk).kind = "error"
    THEN FALSE
    ELSE calculate_checksum(disk) = load_stored_checksum(disk)

\* __set_option_attr: the attributes that do not start with '_'
set_option_attr(dict) == DOMAIN dict

\* hasattr(self, key), for the keys of an options file
hasattr(self, key) == key \in DOMAIN self.dict

\* the loop of load over loaded_options.items()
setattr_loaded(self, loaded_options) ==
    [self EXCEPT !.dict =
        [key \in DOMAIN self.dict |->
            IF key \in DOMAIN loaded_options /\ hasattr(self, key)
            THEN loaded_options[key]
            ELSE self.dict[key]]]

\* loaded_options of load
loaded_options_of(infile) ==
    IF pickle_load(infile) = Raised("EOFError")
    THEN EmptyDict
    ELSE pickle_load(infile)

\* Options.load
load(self, disk) ==
    IF isfile(disk.OPTIONS_PATH) /\ validate_options_file(disk)
    THEN setattr_loaded(self, loaded_options_of(disk.OPTIONS_PATH.bytes))
    ELSE self

\* Options.__init__
Options(disk) ==
    load([dict |-> DefaultOptions,
          option_attr |-> set_option_attr(DefaultOptions)], disk)

\* out_options of save
out_options(self) == [attr \in self.option_attr |-> self.dict[attr]]

\* Options.save_checksum, on the files: an exception of calculate_checksum
\* leaves the checksum file as it is
save_checksum(disk) ==
    IF calculate_checksum(disk).kind = "error"
    THEN disk
    ELSE [disk EXCEPT !.OPTIONS_CHECKSUM_PATH = calculate_checksum(disk)]

\* Options.save, on the files
save(self, disk) ==
    save_checksum(
        [disk EXCEPT !.OPTIONS_PATH =
            write_file(disk.OPTIONS_PATH, pickle_dump(out_options(self)))])

\* the exception save ends with, "" for none
save_raises(self, disk) ==
    IF isfile(disk.OPTIONS_PATH) /\ ~disk.OPTIONS_PATH.readable
    THEN "PermissionError"
    ELSE ""

\* Options.set_option
set_option(self, attr, value) ==
    [self EXCEPT !.dict = set_item(self.dict, attr, value)]

\* Options.restore_defaults, on the object
restore_defaults(self) ==
    [self EXCEPT !.dict =
        [attr \in DOMAIN self.dict |->
            IF attr \in DOMAIN DefaultOptions
            THEN DefaultOptions[attr]
            ELSE self.dict[attr]]]

\* Options.restore_defaults, on the files
unlink_options(disk) ==
    [OPTIONS_PATH |-> PyNone, OPTIONS_CHECKSUM_PATH |-> PyNone]

\* no options file and no checksum file
NoFiles == [OPTIONS_PATH |-> PyNone, OPTIONS_CHECKSUM_PATH |-> PyNone]

\* the options after the first start of the program
OptionsInit == [self |-> Options(NoFiles), disk |-> NoFiles]

\* the dictionaries an options file holds: the defaults, changed options,
\* and changed options of another version with one more key
StoredOptions ==
    {DefaultOptions,
     [MIN_BORDER |-> Num(MIN_BORDER + 10), PLOT_COLOR |-> Str("red")],
     [MIN_BORDER |-> Num(MIN_BORDER + 10), PLOT_COLOR |-> Str("blue"),
      LEGACY_OPTION |-> Num(1)]}

\* the options files something else than save leaves: whole or cut short,
\* readable or not
OptionsFiles ==
    {[bytes |-> [kind |-> "bytes", pickle |-> d, complete |-> c],
      readable |-> r] : d \in StoredOptions, c \in BOOLEAN, r \in BOOLEAN}

\* the two files as something else than this program leaves them
Disks ==
    {[OPTIONS_PATH |-> f, OPTIONS_CHECKSUM_PATH |-> c] :
        f \in OptionsFiles \cup {PyNone},
        c \in {PyNone} \cup {hexdigest(f.bytes) : f \in OptionsFiles}}

\* the calls of set_option
SetOptionCalls ==
    UNION {{[attr |-> attr, value |-> v] : v \in OptionValues[attr]} :
            attr \in DOMAIN DefaultOptions}
        \cup {[attr |-> USER_OPTION, value |-> Num(1)]}

----------------------------------------------------------------------------
(* Inputs *)

\* the values of the first and of the second variable given to clean_data
Var1Values == {NoneStr, Num(1), Num(3)}
Var2Values == {NoneStr, Num(4), Num(5)}

\* the two levels of a series given to a control chart
Low == Num(-1)
High == Num(2)

\* a series of n values: p values at Low, then n - p values at High
step_series(n, p) == [i \in 1..n |-> IF i <= p THEN Low ELSE High]

\* the steps tried: a constant series, and one value apart from the others
StepPositions(n) == {0, 1, n - 1, n} \cap (0..n)

\* the series with the value of study m missing (m = 0: none is missing)
with_missing(y, m) == [i \in 1..Len(y) |-> IF i = m THEN NoneStr ELSE y[i]]

AxisLabels == {"Y Axis"}

\* the identifiers of n studies, in the order of the data
ids(what, n) == [i \in 1..n |-> Id(what, i)]

\* x = [i + 1 for i in range(len(y))]: the numbers of the studies
study_numbers(n) == [i \in 1..n |-> Num(i)]

\* a companion of clean_data: not given, given empty, or given for n studies
Companions(what, n) == {PyNone, PyList(<<>>), PyList(ids(what, n))}

\* the values of a time series of n studies: 10, 20, ..., 10 * n
rising_series(n) == [i \in 1..n |-> Num(10 * i)]

\* the series with every value missing
all_missing(y) == [i \in 1..Len(y) |-> NoneStr]

\* the dates of n studies: "each" on its own day, "pairs" two studies a day,
\* "same" all on one day
DatePatterns == {"each", "pairs", "same"}
dates_of(n, pattern) ==
    [i \in 1..n |->
        Date(IF pattern = "each" THEN i
             ELSE IF pattern = "pairs" THEN (i + 1) \div 2
             ELSE 1)]

\* the lengths of the moving average, the widths of the percentile band in
\* percent, and the numbers of intervals of the histogram that are tried
AvgLens == {1, 2}
Percentiles == {0, 80, 100}
BinSizes == {4}

\* the data of a regression plot of n studies with x = 1, 2, ..., n:
\* "line" has y = 2 * x, "flat" has y = 5, "bent" is the line with the last
\* y one higher, "upright" is the line with every x = 1
RegressionShapes == {"line", "flat", "bent", "upright"}
shape_x(n, shape) == [i \in 1..n |-> Num(IF shape = "upright" THEN 1 ELSE i)]
shape_y(n, shape) ==
    [i \in 1..n |->
        Num(IF shape = "flat" THEN 5
            ELSE IF shape = "bent" /\ i = n THEN 2 * i + 1
            ELSE 2 * i)]

\* what is missing in the data: nothing, the y of the first study is the
\* sentinel 'None', or the x of the last study is nan
MissingKinds == {"none", "None", "nan"}
with_nan_last(x) == [i \in 1..Len(x) |-> IF i = Len(x) THEN NaN ELSE x[i]]

\* plot_data of PlotRegression.update_plot
regression_plot_data(n, shape, missing) ==
    [x |-> IF missing = "nan" THEN with_nan_last(shape_x(n, shape))
           ELSE shape_x(n, shape),
     y |-> IF missing = "None" THEN with_missing(shape_y(n, shape), 1)
           ELSE shape_y(n, shape),
     mrn |-> ids("mrn", n),
     uid |-> ids("uid", n),
     date |-> ids("date", n)]

\* stats_data of n studies: x1 = 1, 2, ..., x2 = 1, 0, 1, 0, ... and
\* y = x1 + 2 * x2, one higher at every third study
stats_data_of(n) ==
    [data |-> [variable \in {"y", "x1", "x2"} |->
                [i \in 1..n |->
                    Num(IF variable = "x1" THEN i
                        ELSE IF variable = "x2" THEN i % 2
                        ELSE i + 2 * (i % 2)
                                + (IF i % 3 = 0 THEN 1 ELSE 0))]],
     mrn |-> ids("mrn", n),
     uid |-> ids("uid", n),
     dates |-> ids("date", n)]

\* the x_variables of a multi-variable regression
XVariables == {<<"x1">>, <<"x1", "x2">>}

\* the dates of a sample of n studies: in the order of the studies, in the
\* reverse order, or two dates in turn (later, earlier, later, ...)
DateOrders == {"sorted", "reversed", "two days"}
sample_dates(n, order) ==
    [i \in 1..n |->
        Date(IF order = "sorted" THEN i
             ELSE IF order = "reversed" THEN n + 1 - i
             ELSE 1 + (i % 2))]

\* a sample of n studies with these dates, the y of study m missing (m = 0:
\* none missing)
sample_of(n, order, m) ==
    [stats_data_of(n) EXCEPT
        !.dates = sample_dates(n, order),
        !.data = [@ EXCEPT !["y"] = with_missing(@, m)]]

----------------------------------------------------------------------------
(* State *)

\* the value of an expression, given as the set that holds it alone
the(S) == CHOOSE v \in S : TRUE

NoCall == [op |-> "none"]

\* PlotControlChart.__init__: the sources, the texts and the labels
ControlChartInit ==
    [source |->
        [plot |-> [x |-> <<>>, y |-> <<>>, mrn |-> <<>>, color |-> <<>>,
                   alpha |-> <<>>, dates |-> <<>>],
         center_line |-> [x |-> <<>>, y |-> <<>>, mrn |-> <<>>],
         ucl_line |-> [x |-> <<>>, y |-> <<>>, mrn |-> <<>>],
         lcl_line |-> [x |-> <<>>, y |-> <<>>, mrn |-> <<>>],
         bound |-> [x |-> <<>>, mrn |-> <<>>, upper |-> <<>>, avg |-> <<>>,
                    lower |-> <<>>],
         patch |-> [x |-> <<>>, y |-> <<>>],
         adj_plot |-> [x |-> <<>>, y |-> <<>>, mrn |-> <<>>, color |-> <<>>,
                       alpha |-> <<>>, dates |-> <<>>],
         adj_center_line |-> [x |-> <<>>, y |-> <<>>, mrn |-> <<>>],
         adj_ucl_line |-> [x |-> <<>>, y |-> <<>>, mrn |-> <<>>],
         adj_lcl_line |-> [x |-> <<>>, y |-> <<>>, mrn |-> <<>>],
         adj_bound |-> [x |-> <<>>, mrn |-> <<>>, upper |-> <<>>, avg |-> <<>>,
                        lower |-> <<>>],
         adj_patch |-> [x |-> <<>>, y |-> <<>>]],
     div |-> [center_line |-> <<>>, ucl |-> <<>>, lcl |-> <<>>,
              adj_center_line |-> <<>>, adj_ucl |-> <<>>, adj_lcl |-> <<>>],
     y_axis_label |-> "",
     axis_label |-> [x |-> "Study", y |-> "Y Axis"]]

Init ==
    /\ call = NoCall
    /\ ans = <<>>
    /\ raised = ""
    /\ source = ControlChartInit.source
    /\ div = ControlChartInit.div
    /\ y_axis_label = ControlChartInit.y_axis_label
    /\ axis_label = ControlChartInit.axis_label
    /\ time_series = TimeSeriesInit
    /\ regression = RegressionInit
    /\ multi_var = MultiVarInit
    /\ main_frame = MainFrameInit
    /\ options = OptionsInit

----------------------------------------------------------------------------
(* Plot.clean_data called on its own *)

\* a call of clean_data has been made and has not returned: one or two
\* variables of the same length n, and each companion not given, given empty
\* or given for the n studies
InitCleanData ==
    /\ Init!4 /\ Init!5 /\ Init!6 /\ Init!7 /\ Init!8
    /\ Init!9 /\ Init!10 /\ Init!11 /\ Init!12
    /\ \E n \in 0..MaxLen :
       \E v1 \in [1..n -> Var1Values] :
       \E with_v2 \in BOOLEAN :
       \E v2 \in IF with_v2 THEN [1..n -> Var2Values] ELSE {<<>>} :
       \E mrn \in Companions("mrn", n) :
       \E uid \in Companions("uid", n) :
       \E dates \in Companions("date", n) :
           call = [op |-> "clean_data",
                   data |-> IF with_v2 THEN <<v1, v2>> ELSE <<v1>>,
                   mrn |-> mrn, uid |-> uid, dates |-> dates]
    /\ ans = <<>>
    /\ raised = "pending"

\* the call returns
CleanData ==
    /\ call.op = "clean_data"
    /\ raised = "pending"
    /\ ans' = clean_data(call.data, call.mrn, call.uid, call.dates)
    /\ raised' = ""
    /\ UNCHANGED <<call, source, div, y_axis_label, axis_label, other_plots>>
    /\ UNCHANGED shell

----------------------------------------------------------------------------
(* PlotControlChart *)

\* update_plot from the unpacking of clean_data's answer on: cd is the
\* answer, limits what get_control_limits gives for its y
update_plot_limits(self, cd, limits, label) ==
    IF Len(cd) # 5
    THEN \* x, y, mrn, uid, dates = ... cannot unpack the tuple
         [source |-> cleared_sources(self.source),
          div |-> div_cleared(self.div),
          y_axis_label |-> label,
          axis_label |-> [self.axis_label EXCEPT !.y = label],
          raised |-> "ValueError"]
    ELSE IF limits = <<>>
    THEN \* the calculator rejects the cleaned y
         [source |-> cleared_sources(self.source),
          div |-> div_cleared(self.div),
          y_axis_label |-> label,
          axis_label |-> [self.axis_label EXCEPT !.y = label],
          raised |-> "RejectedInput"]
    ELSE the({[source |->
                 [cleared_sources(self.source) EXCEPT
                     !.plot = [x |-> cd[1], y |-> cd[2], mrn |-> cd[3],
                               uid |-> cd[4],
                               color |-> plot_color(lim, cd[2]),
                               alpha |-> plot_alpha(lim, cd[2]),
                               dates |-> cd[5]],
                     !.patch = patch_data(cd[1], lim),
                     !.center_line = line_data(cd[1], lim.center_line),
                     !.lcl_line = line_data(cd[1], lim.lcl),
                     !.ucl_line = line_data(cd[1], lim.ucl)],
               div |->
                 [div_cleared(self.div) EXCEPT
                     !.center_line = <<"Center line", Fmt3(lim.center_line)>>,
                     !.ucl = <<"UCL", Fmt3(lim.ucl)>>,
                     !.lcl = <<"LCL", Fmt3(lim.lcl)>>],
               y_axis_label |-> label,
               axis_label |-> [self.axis_label EXCEPT !.y = label],
               raised |-> ""] :
              lim \in {unpack_limits(limits)}})

\* the chart self after update_plot(x, y, mrn, uid, dates, y_axis_label)
control_chart_update_plot(self, x, y, mrn, uid, dates, label) ==
    the(UNION
        {{update_plot_limits(self, cd, limits, label) :
          limits \in {IF Len(cd) = 5 THEN get_control_limits(cd[2])
                      ELSE <<>>}} :
         cd \in {clean_data(<<x, y>>, PyList(mrn), PyList(uid),
                            PyList(dates))}})

\* update_plot(x, y, mrn, uid, dates, y_axis_label)
UpdatePlot(x, y, mrn, uid, dates, label) ==
    \E after \in {control_chart_update_plot(
                      [source |-> source, div |-> div,
                       axis_label |-> axis_label],
                      x, y, mrn, uid, dates, label)} :
    /\ call' = [op |-> "update_plot", x |-> x, y |-> y, mrn |-> mrn,
                uid |-> uid, dates |-> dates, y_axis_label |-> label]
    /\ ans' = <<>>
    /\ raised' = after.raised
    /\ source' = after.source
    /\ div' = after.div
    /\ y_axis_label' = after.y_axis_label
    /\ axis_label' = after.axis_label
    /\ UNCHANGED other_plots
    /\ UNCHANGED shell

UpdatePlotCalls ==
    UNION {{[x |-> study_numbers(n),
             y |-> with_missing(step_series(n, p), m),
             mrn |-> ids("mrn", n), uid |-> ids("uid", n),
             dates |-> ids("date", n), y_axis_label |-> label] :
            p \in StepPositions(n), m \in {0, 1}, label \in AxisLabels} :
           n \in 0..MaxSeries}

UpdatePlotCall ==
    \E c \in UpdatePlotCalls :
        UpdatePlot(c.x, c.y, c.mrn, c.uid, c.dates, c.y_axis_label)

\* the chart self after update_adjusted_control_chart(x, residuals, mrn, uid,
\* dates), limits being what get_control_limits gives for the residuals
update_adjusted_limits(self, limits, x, residuals, mrn, uid, dates) ==
    IF limits = <<>>
    THEN \* the calculator rejects the residuals
         [source |-> self.source, div |-> self.div, raised |-> "RejectedInput"]
    ELSE the({[source |->
                 [self.source EXCEPT
                     !.adj_plot = [x |-> x, y |-> residuals, mrn |-> mrn,
                                   uid |-> uid,
                                   color |-> adj_color(lim, residuals),
                                   alpha |-> adj_alpha(lim, residuals),
                                   dates |-> dates],
                     !.adj_patch = patch_data(x, lim),
                     !.adj_center_line = line_data(x, lim.center_line),
                     !.adj_lcl_line = line_data(x, lim.lcl),
                     !.adj_ucl_line = line_data(x, lim.ucl)],
               div |->
                 [self.div EXCEPT
                     !.adj_center_line =
                         <<"Center line", Fmt3(lim.center_line)>>,
                     !.adj_ucl = <<"UCL", Fmt3(lim.ucl)>>,
                     !.adj_lcl = <<"LCL", Fmt3(lim.lcl)>>],
               raised |-> ""] :
              lim \in {unpack_limits(limits)}})

\* the chart self after update_adjusted_control_chart(x, residuals, mrn, uid,
\* dates)
update_adjusted_control_chart(self, x, residuals, mrn, uid, dates) ==
    the({update_adjusted_limits(self, limits, x, residuals, mrn, uid, dates) :
         limits \in {get_control_limits(residuals)}})

\* update_adjusted_control_chart(x, residuals, mrn, uid, dates)
UpdateAdjustedControlChart(x, residuals, mrn, uid, dates) ==
    \E after \in {update_adjusted_control_chart(
                      [source |-> source, div |-> div],
                      x, residuals, mrn, uid, dates)} :
    /\ call' = [op |-> "update_adjusted_control_chart", x |-> x,
                residuals |-> residuals, mrn |-> mrn, uid |-> uid,
                dates |-> dates]
    /\ ans' = <<>>
    /\ raised' = after.raised
    /\ source' = after.source
    /\ div' = after.div
    /\ UNCHANGED <<y_axis_label, axis_label, other_plots>>
    /\ UNCHANGED shell

UpdateAdjustedControlChartCalls ==
    UNION {{[x |-> study_numbers(n), residuals |-> step_series(n, p),
             mrn |-> ids("mrn", n), uid |-> ids("uid", n),
             dates |-> ids("date", n)] :
            p \in StepPositions(n)} :
           n \in 0..MaxSeries}

UpdateAdjustedControlChartCall ==
    \E c \in UpdateAdjustedControlChartCalls :
        UpdateAdjustedControlChart(c.x, c.residuals, c.mrn, c.uid, c.dates)

\* clear_plot(): the layout exists once the chart is constructed
ClearPlot ==
    /\ call' = [op |-> "clear_plot"]
    /\ ans' = <<>>
    /\ raised' = ""
    /\ div' = div_cleared(div)
    /\ source' = cleared_sources(source)
    /\ axis_label' = [x |-> "", y |-> ""]
    /\ UNCHANGED <<y_axis_label, other_plots>>
    /\ UNCHANGED shell

----------------------------------------------------------------------------
(* PlotTimeSeries *)

\* the plot self after update_plot(x, y, mrn, uid, y_axis_label, avg_len,
\* percentile, bin_size)
time_series_update_plot(self, x, y, mrn, uid, label, avg_len, percentile, bin_size) ==
    the({[source |-> trend_sources(with_hist, avg_len, percentile),
          y_axis_label |-> label,
          axis_label |-> [x |-> "Simulation Date", y |-> label],
          histogram_axis_label |->
              [self.histogram_axis_label EXCEPT !.x = label],
          raised |-> ""] :
         with_hist \in
            {[cleared_sources(self.source) EXCEPT
                  !.plot = points,
                  !.hist = hist_data(points.y, bin_size)] :
             points \in {update_plot_data(x, y, mrn, uid)}}})

\* update_plot(x, y, mrn, uid, y_axis_label, avg_len, percentile, bin_size)
TimeSeriesUpdatePlot(x, y, mrn, uid, label, avg_len, percentile, bin_size) ==
    /\ call' = [op |-> "time_series.update_plot", x |-> x, y |-> y,
                mrn |-> mrn, uid |-> uid, y_axis_label |-> label,
                avg_len |-> avg_len, percentile |-> percentile,
                bin_size |-> bin_size]
    /\ time_series' = time_series_update_plot(time_series, x, y, mrn, uid,
                                              label, avg_len, percentile,
                                              bin_size)
    /\ UNCHANGED <<ans, raised, control_chart, regression, multi_var>>
    /\ UNCHANGED shell

\* the studies of a call: a rising series, maybe with the first value or
\* with every value missing
TimeSeriesUpdatePlotCalls ==
    {[x |-> dates_of(n, pattern),
      y |-> IF missing = "all" THEN all_missing(rising_series(n))
            ELSE IF missing = "first" THEN with_missing(rising_series(n), 1)
            ELSE rising_series(n),
      mrn |-> ids("mrn", n), uid |-> ids("uid", n), y_axis_label |-> label,
      avg_len |-> avg_len, percentile |-> percentile,
      bin_size |-> bin_size] :
        n \in 0..MaxSeries, pattern \in DatePatterns,
        missing \in {"none", "first", "all"}, avg_len \in AvgLens,
        percentile \in Percentiles, bin_size \in BinSizes,
        label \in AxisLabels}

TimeSeriesUpdatePlotCall ==
    \E c \in TimeSeriesUpdatePlotCalls :
        TimeSeriesUpdatePlot(c.x, c.y, c.mrn, c.uid, c.y_axis_label,
                             c.avg_len, c.percentile, c.bin_size)

----------------------------------------------------------------------------
(* PlotRegression *)

\* update_trend(x_var) from the unpacking of clean_data's answer on: cd is
\* the answer, d the X and y of the studies without nan, fit what the
\* constructor of the fit gives for them
update_trend(self, cleared, cd, d, fit, x_var, x_axis_title, y_axis_title) ==
    IF fit.kind = "error"
    THEN \* x, y, mrn, date = ... cannot unpack the tuple, or the
         \* constructor of the fit raises
         [self EXCEPT
             !.source = cleared,
             !.x_axis_title = x_axis_title,
             !.y_axis_title = y_axis_title,
             !.handed = IF Len(cd) = 4 THEN d ELSE @,
             !.raised = fit.error,
             !.page = "outdated"]
    ELSE [source |->
             [residual_sources(cleared, fit, cd[3], cd[4]) EXCEPT
                 !.table = regression_table(fit, x_var),
                 !.trend =
                     [x |-> <<py_min(cd[1]), py_max(cd[1])>>,
                      y |-> y_trend_of(<<py_min(cd[1]), py_max(cd[1])>>,
                                       fit.slope, fit.y_intercept),
                      mrn |-> <<Str("Trend"), Str("Trend")>>]],
          x_axis_title |-> x_axis_title,
          y_axis_title |-> y_axis_title,
          axis_label |-> [x |-> x_axis_title, y |-> y_axis_title],
          reg |-> fit,
          handed |-> d,
          raised |-> "",
          page |-> "current"]

\* the plot self after update_plot(plot_data, x_var, x_axis_title,
\* y_axis_title)
regression_update_plot(self, plot_data, x_var, x_axis_title, y_axis_title) ==
    the(UNION UNION UNION
        {{{{update_trend(self, cleared, cd, d, fit, x_var, x_axis_title,
                         y_axis_title) :
            fit \in {IF Len(cd) = 4
                     THEN MultiVariableRegression(d.X, d.y, 1)
                     ELSE Raised("ValueError")}} :
           d \in {IF Len(cd) = 4 THEN design(cd[1], cd[2]) ELSE NotHanded}} :
          cd \in {clean_data(<<plot_data.x, plot_data.y>>,
                             PyList(plot_data.mrn), PyNone,
                             PyList(plot_data.date))}} :
         cleared \in {[cleared_sources(self.source)
                          EXCEPT !.plot = plot_data]}})

\* update_plot(plot_data, x_var, x_axis_title, y_axis_title), with
\* update_trend(x_var)
RegressionUpdatePlot(plot_data, x_var, x_axis_title, y_axis_title) ==
    /\ call' = [op |-> "regression.update_plot", plot_data |-> plot_data,
                x_var |-> x_var, x_axis_title |-> x_axis_title,
                y_axis_title |-> y_axis_title]
    /\ regression' = regression_update_plot(regression, plot_data, x_var,
                                            x_axis_title, y_axis_title)
    /\ UNCHANGED <<ans, raised, control_chart, time_series, multi_var>>
    /\ UNCHANGED shell

\* the data of a call; the titles of the axes name the shape of the data
RegressionUpdatePlotCalls ==
    {[plot_data |-> regression_plot_data(n, shape, missing),
      x_axis_title |-> shape] :
        n \in 0..MaxStudies, shape \in RegressionShapes,
        missing \in MissingKinds}

RegressionUpdatePlotCall ==
    \E c \in RegressionUpdatePlotCalls :
        RegressionUpdatePlot(c.plot_data, "x", c.x_axis_title, "y")

\* the regression of y on one variable of the data, none missing
RegressionOfVariableCalls ==
    {regression_plot_data(n, "bent", "none") : n \in 0..MaxStudies}

RegressionOfVariableCall ==
    \E plot_data \in RegressionOfVariableCalls :
        RegressionUpdatePlot(plot_data, "x", "bent", "y")

----------------------------------------------------------------------------
(* PlotMultiVarRegression *)

\* update_plot(y_variable, x_variables, stats_data)
MultiVarUpdatePlot(y_variable, x_variables, stats_data) ==
    \E cleared \in {cleared_sources(multi_var.source)} :
    \E a \in {get_X_and_y(stats_data, y_variable, x_variables)} :
    \E fit \in {MultiVariableRegression(a.X, a.y, Len(x_variables))} :
    \E f_stat_error \in FStatErrors :
    \E aligned \in {[multi_var EXCEPT
                        !.y_variable = y_variable,
                        !.x_variables = x_variables,
                        !.stats_data = stats_data,
                        !.X = a.X, !.y = a.y, !.mrn = a.mrn, !.uid = a.uid,
                        !.dates = a.dates]} :
    /\ call' = [op |-> "multi_var.update_plot", y_variable |-> y_variable,
                x_variables |-> x_variables, stats_data |-> stats_data]
    /\ UNCHANGED <<ans, raised, control_chart, time_series, regression>>
    /\ UNCHANGED shell
    /\ IF fit.kind = "error"
       THEN \* the constructor of the fit raises
            multi_var' = [aligned EXCEPT !.source = cleared,
                                         !.raised = fit.error,
                                         !.page = "outdated"]
       ELSE IF fit.f_stat = Omitted
       THEN \* "f stat: %0.3f ..." % (self.reg.f_stat, ...) raises
            multi_var' =
                [aligned EXCEPT
                    !.source = residual_sources(cleared, fit, a.mrn, a.dates),
                    !.reg = fit,
                    !.raised = f_stat_error,
                    !.page = "outdated"]
       ELSE multi_var' =
                [aligned EXCEPT
                    !.source =
                        [residual_sources(cleared, fit, a.mrn, a.dates)
                            EXCEPT !.table =
                                        multi_var_table(fit, x_variables)],
                    !.reg = fit,
                    !.axis_label = [x |-> "Fitted Values", y |-> "Residuals"],
                    !.raised = "",
                    !.page = "current"]

MultiVarSamples == {stats_data_of(n) : n \in 0..MaxStudies}

MultiVarUpdatePlotCall ==
    \E stats_data \in MultiVarSamples :
    \E x_variables \in XVariables :
        MultiVarUpdatePlot("y", x_variables, stats_data)

----------------------------------------------------------------------------
(* The adjusted control chart of a multi-variable regression *)

\* a sorting that puts the later one of two studies of one date first
sort_index_unstable(dates) ==
    [r \in 1..Len(dates) |->
        CHOOSE k \in 1..Len(dates) :
            Cardinality({m \in 1..Len(dates) :
                            \/ dates[m].day < dates[k].day
                            \/ dates[m].day = dates[k].day /\ m > k}) = r - 1]

\* sorted(range(len(dates)), key=lambda k: dates[k]): the indices of the
\* studies by date, studies of one date in their order
sort_index(dates) ==
    [r \in 1..Len(dates) |->
        CHOOSE k \in 1..Len(dates) :
            Cardinality({m \in 1..Len(dates) :
                            \/ dates[m].day < dates[k].day
                            \/ dates[m].day = dates[k].day /\ m < k}) = r - 1]

\* var_sorted.append(var[sort_index[s]]) for s in range(len(dates))
sorted_by(var, index) == [s \in 1..Len(index) |-> var[index[s]]]

\* residuals taken the other way round
prediction_minus_y(y, predictions) ==
    [i \in 1..Len(y) |-> QSub(predictions[i], QOf(y[i]))]

\* np.subtract(y, predictions)
np_subtract(y, predictions) ==
    [i \in 1..Len(y) |-> QSub(QOf(y[i]), predictions[i])]

\* what get_adjusted_control_chart returns once get_X_and_y has answered a
\* and the fit has predicted
adjusted_control_chart_of(a, residuals, index) ==
    [x |-> study_numbers(Len(a.y)),
     residuals |-> sorted_by(residuals, index),
     mrn |-> sorted_by(a.mrn, index),
     uid |-> sorted_by(a.uid, index),
     dates |-> sorted_by(a.dates, index)]

\* PlotControlChart.get_adjusted_control_chart(y_variable, x_variables,
\* regression, stats_data), plot being the regression: the keyword arguments of
\* update_adjusted_control_chart, or what is raised: plot.reg is None
\* before the first fit, and predict needs as many columns as the fit has
\* slopes
get_adjusted_control_chart(y_variable, x_variables, plot, stats_data) ==
    IF plot.reg = PyNone THEN Raised("AttributeError")
    ELSE IF Len(x_variables) # plot.reg.k THEN Raised("ValueError")
    ELSE the(UNION UNION
             {{{adjusted_control_chart_of(a, residuals, index) :
                index \in {sort_index(a.dates)}} :
               residuals \in
                    {np_subtract(a.y, predict(plot.reg, a.X))}} :
              a \in {get_X_and_y(stats_data, y_variable, x_variables)}})

\* the control chart is given the residuals of the sample stats_data under
\* the fit of the regression plot:
\* update_adjusted_control_chart(**get_adjusted_control_chart(y_variable,
\* x_variables, regression, stats_data))
AdjustedControlChart(y_variable, x_variables, stats_data) ==
    \E chart \in {get_adjusted_control_chart(y_variable, x_variables,
                                             multi_var, stats_data)} :
    \E after \in {IF "error" \in DOMAIN chart
                  THEN [source |-> source, div |-> div,
                        raised |-> chart.error]
                  ELSE update_adjusted_control_chart(
                            [source |-> source, div |-> div], chart.x,
                            chart.residuals, chart.mrn, chart.uid,
                            chart.dates)} :
    /\ call' = [op |-> "adjusted_control_chart", y_variable |-> y_variable,
                x_variables |-> x_variables, stats_data |-> stats_data]
    /\ ans' = IF "error" \in DOMAIN chart THEN <<>> ELSE chart
    /\ raised' = after.raised
    /\ source' = after.source
    /\ div' = after.div
    /\ UNCHANGED <<y_axis_label, axis_label, other_plots>>
    /\ UNCHANGED shell

\* the samples of the chart: one study, or MaxStudies studies dated in some
\* order, with or without the y of the first one
AdjustedSamples ==
    {sample_of(1, "sorted", 0), sample_of(MaxStudies, "two days", 1)}
        \cup {sample_of(MaxStudies, order, 0) : order \in DateOrders}

AdjustedControlChartCall ==
    \E stats_data \in AdjustedSamples :
    \E x_variables \in XVariables :
        AdjustedControlChart("y", x_variables, stats_data)

\* the fit of the regression plot: too few studies, or enough
FitSamples == {stats_data_of(2), stats_data_of(MaxStudies)}

FitCall ==
    \E stats_data \in FitSamples :
    \E x_variables \in XVariables :
        MultiVarUpdatePlot("y", x_variables, stats_data)

----------------------------------------------------------------------------
(* DVHAMainFrame *)

\* the handler of an event has run: after is the frame it leaves
MainFrameEvent(event, after) ==
    /\ call' = event
    /\ ans' = <<>>
    /\ raised' = after.raised
    /\ main_frame' = after
    /\ UNCHANGED <<control_chart, other_plots, options>>

\* the button of add_row_categorical or add_row_numerical is pressed
AddRow(query_type, res) ==
    /\ row_count(main_frame.data_table[query_type]) < MaxRows
    /\ MainFrameEvent([op |-> "add_row", query_type |-> query_type],
                      add_row(handling(main_frame), query_type, res))

AddRowCall ==
    \E query_type \in QueryTypes :
    \E res \in {"OK", "CANCEL"} :
        AddRow(query_type, res)

\* a categorical filter is added
AddFilterCall == AddRow("categorical", "OK")

\* a row of a table is selected
OnItemSelect(query_type, index) ==
    /\ index < row_count(main_frame.data_table[query_type])
    /\ MainFrameEvent([op |-> "on_item_select", query_type |-> query_type,
                       index |-> index],
                      on_item_select(handling(main_frame), query_type,
                                     index))

OnItemSelectCall ==
    \E query_type \in QueryTypes :
    \E index \in 0..(MaxRows - 1) :
        OnItemSelect(query_type, index)

\* the Delete button of a table is pressed: it is enabled
DelRow(query_type, outcome) ==
    /\ main_frame.button[query_type].del
    /\ MainFrameEvent([op |-> "del_row", query_type |-> query_type,
                       index |-> main_frame.selected_index[query_type]],
                      del_row(handling(main_frame), query_type, outcome))

DelRowCall ==
    \E query_type \in QueryTypes :
    \E outcome \in {"raises", "does nothing"} :
        DelRow(query_type, outcome)

\* the button Query and Retrieve is pressed: it is enabled; the query
\* returns count DVHs
ExecQueryButton(count) ==
    /\ main_frame.button_query_execute
    /\ MainFrameEvent([op |-> "exec_query_button"],
                      exec_query(handling(main_frame), FALSE, DVH(count)))

ExecQueryButtonCall == \E count \in 0..MaxDvhs : ExecQueryButton(count)

\* Save is chosen
OnSave(res) ==
    /\ MainFrameEvent([op |-> "on_save"],
                      on_save(handling(main_frame), res))

OnSaveCall == \E res \in {"OK", "CANCEL"} : OnSave(res)

\* Open is chosen: the file written by on_save is there to be picked
OnOpen(res) ==
    /\ main_frame.file # PyNone
    /\ MainFrameEvent([op |-> "on_open"],
                      on_open(handling(main_frame), res))

OnOpenCall == \E res \in {"OK", "CANCEL"} : OnOpen(res)

\* Close is chosen
OnClose(res) ==
    /\ MainFrameEvent([op |-> "on_close"],
                      on_close(handling(main_frame), res))

OnCloseCall == \E res \in {"YES", "NO"} : OnClose(res)

----------------------------------------------------------------------------
(* Options *)

\* a method of Options has been called, or the files have changed
OptionsEvent(event, self, disk, error) ==
    /\ call' = event
    /\ ans' = <<>>
    /\ raised' = error
    /\ options' = [self |-> self, disk |-> disk]
    /\ UNCHANGED <<control_chart, other_plots, main_frame>>

\* the program starts: DVHAMainFrame.__init__ makes its Options
NewOptions ==
    /\ OptionsEvent([op |-> "Options"], Options(options.disk),
                    options.disk, "")

\* the user settings change an option
SetOption(attr, value) ==
    /\ OptionsEvent([op |-> "set_option", attr |-> attr],
                    set_option(options.self, attr, value), options.disk, "")

SetOptionCall == \E c \in SetOptionCalls : SetOption(c.attr, c.value)

\* the user settings are applied
Save ==
    /\ OptionsEvent([op |-> "save"], options.self,
                    save(options.self, options.disk),
                    save_raises(options.self, options.disk))

\* the defaults are restored
RestoreDefaults ==
    /\ OptionsEvent([op |-> "restore_defaults"],
                    restore_defaults(options.self),
                    unlink_options(options.disk), "")

\* something else than this program writes, replaces or removes the files
FilesChange(disk) ==
    /\ disk # options.disk
    /\ OptionsEvent([op |-> "files"], options.self, disk, "")

FilesChangeCall == \E disk \in Disks : FilesChange(disk)

----------------------------------------------------------------------------
(* The three plots that take update_plot, side by side *)

\* the numbers of studies of a call: none, too few for limits or for a fit,
\* and enough
ChartLens == {0, 1, MaxSeries}
SeriesLens == {0, MaxLen}
StudyLens == {0, 2, MaxStudies}

\* PlotControlChart.update_plot, the step of the series after the first
\* study or nowhere
ChartUpdatePlotCalls ==
    {c \in UpdatePlotCalls :
        /\ Len(c.y) \in ChartLens
        /\ \E p \in {0, 1} \cap StepPositions(Len(c.y)) :
            c.y = step_series(Len(c.y), p)}

ChartUpdatePlotCall ==
    \E c \in ChartUpdatePlotCalls :
        UpdatePlot(c.x, c.y, c.mrn, c.uid, c.dates, c.y_axis_label)

\* PlotTimeSeries.update_plot, a study a day, every value given or missing
SeriesUpdatePlotCalls ==
    {[x |-> dates_of(n, "each"),
      y |-> IF all THEN all_missing(rising_series(n)) ELSE rising_series(n),
      mrn |-> ids("mrn", n), uid |-> ids("uid", n), y_axis_label |-> label,
      bin_size |-> bin_size] :
        n \in SeriesLens, all \in BOOLEAN, bin_size \in BinSizes,
        label \in AxisLabels}

SeriesUpdatePlotCall ==
    \E c \in SeriesUpdatePlotCalls :
        TimeSeriesUpdatePlot(c.x, c.y, c.mrn, c.uid, c.y_axis_label, 1, 80,
                             c.bin_size)

\* PlotRegression.update_plot, no value missing
StudyUpdatePlotCalls ==
    {[plot_data |-> regression_plot_data(n, shape, "none"),
      x_axis_title |-> shape] :
        n \in StudyLens, shape \in {"line", "bent"}}

StudyUpdatePlotCall ==
    \E c \in StudyUpdatePlotCalls :
        RegressionUpdatePlot(c.plot_data, "x", c.x_axis_title, "y")

----------------------------------------------------------------------------
(* Specifications *)

\* the control chart object and the calls made on it
Next ==
    \/ UpdatePlotCall
    \/ UpdateAdjustedControlChartCall
    \/ ClearPlot

Spec == Init /\ [][Next]_vars

\* clean_data applied to the inputs of the bounded sets
NextCleanData == CleanData

SpecCleanData == InitCleanData /\ [][NextCleanData]_vars

\* the time-series plot and the calls made on it
NextTimeSeries == TimeSeriesUpdatePlotCall

SpecTimeSeries == Init /\ [][NextTimeSeries]_vars

\* the regression plot and the calls made on it
NextRegression == RegressionUpdatePlotCall

SpecRegression == Init /\ [][NextRegression]_vars

\* the multi-variable regression plot next to the regression plot of one
\* of its variables, and the calls made on the two
NextMultiVar ==
    \/ MultiVarUpdatePlotCall
    \/ RegressionOfVariableCall

SpecMultiVar == Init /\ [][NextMultiVar]_vars

\* the control chart, the time-series plot and the regression plot of one
\* session, and the update_plot calls made on them in any order
NextPlots ==
    \/ ChartUpdatePlotCall
    \/ SeriesUpdatePlotCall
    \/ StudyUpdatePlotCall

SpecPlots == Init /\ [][NextPlots]_vars

\* the multi-variable regression plot and the control chart that shows the
\* residuals of its fit
NextAdjusted ==
    \/ FitCall
    \/ AdjustedControlChartCall

SpecAdjusted == Init /\ [][NextAdjusted]_vars

\* the main frame: filters are added, data are queried, saved, opened and
\* closed
NextMainFrame ==
    \/ AddFilterCall
    \/ ExecQueryButtonCall
    \/ OnSaveCall
    \/ OnOpenCall
    \/ OnCloseCall

SpecMainFrame == Init /\ [][NextMainFrame]_vars

\* the filter tables of the main frame: rows are added, selected and
\* deleted, data are queried and closed
NextFilters ==
    \/ AddRowCall
    \/ OnItemSelectCall
    \/ DelRowCall
    \/ ExecQueryButtonCall
    \/ OnCloseCall

SpecFilters == Init /\ [][NextFilters]_vars

\* the options and their two files: options are set, saved and restored,
\* the program starts again, and the files change under it
NextOptions ==
    \/ NewOptions
    \/ SetOptionCall
    \/ Save
    \/ RestoreDefaults
    \/ FilesChangeCall

SpecOptions == Init /\ [][NextOptions]_vars

----------------------------------------------------------------------------
(* Properties of Plot.clean_data, under SpecCleanData *)

\* the call of clean_data has returned
Returned == call.op = "clean_data" /\ raised = ""

\* the length of the variables of the call
InputLen == Len(call.data[1])

\* the studies with the sentinel 'None' in some variable of the call
Flagged ==
    {i \in 1..InputLen :
        \E j \in 1..Len(call.data) : call.data[j][i] = NoneStr}

\* the studies that remain, and the place of a remaining study among them
Remaining == (1..InputLen) \ Flagged
PlaceOf(i) == Cardinality({k \in Remaining : k <= i})

\* the companions of the call, and those given as a non-empty list
CompanionArgs == <<call.mrn, call.uid, call.dates>>
IsGivenList(c) == c # PyNone /\ c.items # <<>>

\* the sequences of the call that have an output: the variables, then the
\* non-empty companions
InputsWithOutput ==
    call.data \o
    [k \in 1..Len(SelectSeq(CompanionArgs, IsGivenList)) |->
        SelectSeq(CompanionArgs, IsGivenList)[k].items]

\* C1: clean_data removes exactly the studies flagged with 'None' in some
\* variable, and every output holds the remaining entries of its input in
\* their original order; [1,'None',3] and [4,5,'None'] give [1] and [4].
C1_RemovesExactlyFlagged ==
    Returned =>
        /\ Len(ans) = Len(InputsWithOutput)
        /\ \A k \in 1..Len(ans) :
            /\ Len(ans[k]) = Cardinality(Remaining)
            /\ \A i \in Remaining : ans[k][PlaceOf(i)] = InputsWithOutput[k][i]
        /\ (call.data = <<<<Num(1), NoneStr, Num(3)>>,
                          <<Num(4), Num(5), NoneStr>>>>
                => ans[1] = <<Num(1)>> /\ ans[2] = <<Num(4)>>)

\* the example of C1 has been cleaned, with its companions
C1_Witness ==
    /\ Returned
    /\ call.data = <<<<Num(1), NoneStr, Num(3)>>, <<Num(4), Num(5), NoneStr>>>>
    /\ call.mrn = PyList(ids("mrn", 3))
    /\ ans = <<<<Num(1)>>, <<Num(4)>>, <<Id("mrn", 1)>>>>

\* C2: all returned sequences have the same length, the input length minus
\* the number of distinct flagged studies.
C2_OutputLength ==
    Returned =>
        \A k \in 1..Len(ans) :
            Len(ans[k]) = InputLen - Cardinality(Flagged)

\* two variables flag two different studies of three, with all companions
C2_Witness ==
    /\ Returned
    /\ InputLen = 3
    /\ Len(call.data) = 2
    /\ none_indices(call.data[1]) = {3}
    /\ none_indices(call.data[2]) = {1, 3}
    /\ Len(ans) = 5
    /\ \A k \in 1..5 : Len(ans[k]) = 1

\* C3: position p of every returned sequence, variables and companions alike,
\* holds the entry of one and the same original study.
C3_SameStudyAtEachPosition ==
    Returned =>
        \A k \in 1..Len(ans) : \A p \in 1..Len(ans[k]) :
            \E i \in 1..InputLen :
                \A m \in 1..Len(ans) :
                    /\ p <= Len(ans[m])
                    /\ ans[m][p] = InputsWithOutput[m][i]

\* the middle study of three is dropped and the companions follow
C3_Witness ==
    /\ Returned
    /\ Len(call.data) = 2
    /\ Flagged = {2}
    /\ none_indices(call.data[1]) = {}
    /\ Len(ans) = 5
    /\ ans[3] = <<Id("mrn", 1), Id("mrn", 3)>>
    /\ ans[4] = <<Id("uid", 1), Id("uid", 3)>>
    /\ ans[5] = <<Id("date", 1), Id("date", 3)>>

\* C4 (as claimed): the result holds one output for every sequence given, the
\* variables followed by each given companion, also when they are empty.
C4_OneOutputPerGivenSequence ==
    Returned =>
        Len(ans) = Len(call.data)
                   + Cardinality({k \in 1..3 : CompanionArgs[k] # PyNone})

\* every study is flagged
AllFlagged == Flagged = 1..InputLen

\* C5: when every study is flagged the call raises nothing and every returned
\* sequence, of a variable or of a companion, is empty.
C5_AllFlaggedGivesEmpty ==
    (call.op = "clean_data" /\ raised # "pending" /\ AllFlagged) =>
        /\ raised = ""
        /\ \A k \in 1..Len(ans) : ans[k] = <<>>

\* three studies, all flagged, and the three companions returned empty
C5_Witness ==
    /\ Returned
    /\ AllFlagged
    /\ InputLen = 3
    /\ IsGivenList(call.mrn) /\ IsGivenList(call.uid) /\ IsGivenList(call.dates)
    /\ ans = <<<<>>, <<>>, <<>>, <<>>, <<>>>>

----------------------------------------------------------------------------
(* Properties of PlotControlChart, under Spec *)

\* the two charts of the object: the keys of their sources and Divs
Raw == [plot |-> "plot", center |-> "center_line", ucl |-> "ucl_line",
        lcl |-> "lcl_line", div_center |-> "center_line", div_ucl |-> "ucl",
        div_lcl |-> "lcl"]
Adjusted == [plot |-> "adj_plot", center |-> "adj_center_line",
             ucl |-> "adj_ucl_line", lcl |-> "adj_lcl_line",
             div_center |-> "adj_center_line", div_ucl |-> "adj_ucl",
             div_lcl |-> "adj_lcl"]
Charts == {Raw, Adjusted}

\* what a chart shows: its points and the levels of its three lines
Shown(c) == source[c.plot].y # <<>>
PointsOf(c) == source[c.plot]
CenterOf(c) == source[c.center].y[1]
UclOf(c) == source[c.ucl].y[1]
LclOf(c) == source[c.lcl].y[1]

\* NOT (lcl < value < ucl) for point i of a chart
Outside(c, i) ==
    ~(QLess(LclOf(c), QOf(PointsOf(c).y[i]))
        /\ QLess(QOf(PointsOf(c).y[i]), UclOf(c)))

\* point i of a chart lies exactly on a control limit
OnLimit(c, i) ==
    \/ QEq(QOf(PointsOf(c).y[i]), UclOf(c))
    \/ QEq(QOf(PointsOf(c).y[i]), LclOf(c))

MarkedOut(c, i) ==
    /\ PointsOf(c).color[i] = CONTROL_CHART_OUT_OF_CONTROL_COLOR
    /\ PointsOf(c).alpha[i] = CONTROL_CHART_OUT_OF_CONTROL_ALPHA
MarkedIn(c, i) ==
    /\ PointsOf(c).color[i] = PLOT_COLOR
    /\ PointsOf(c).alpha[i] = CONTROL_CHART_CIRCLE_ALPHA

\* C6: in both charts a point has the out-of-control colour and alpha exactly
\* when NOT (lcl < value < ucl), and the in-control colour and alpha otherwise.
C6_OutOfControlIffOutside ==
    \A c \in Charts : Shown(c) =>
        /\ Len(PointsOf(c).color) = Len(PointsOf(c).y)
        /\ Len(PointsOf(c).alpha) = Len(PointsOf(c).y)
        /\ \A i \in 1..Len(PointsOf(c).y) :
            IF Outside(c, i) THEN MarkedOut(c, i) ELSE MarkedIn(c, i)

\* both charts show a point inside and a point strictly outside the limits
C6_Witness ==
    \A c \in Charts :
        /\ Shown(c)
        /\ \E i \in 1..Len(PointsOf(c).y) : ~Outside(c, i) /\ MarkedIn(c, i)
        /\ \E i \in 1..Len(PointsOf(c).y) :
            Outside(c, i) /\ ~OnLimit(c, i) /\ MarkedOut(c, i)

\* C7 (as claimed): a value exactly on a control limit is marked in control.
C7_OnLimitIsInControl ==
    \A c \in Charts : Shown(c) =>
        \A i \in 1..Len(PointsOf(c).y) : OnLimit(c, i) => MarkedIn(c, i)

\* C7 (amended): a value exactly on a control limit is marked out of control;
\* in a constant series, where ucl = lcl = center, every point is.
C7_OnLimitIsOutOfControl ==
    \A c \in Charts : Shown(c) =>
        \A i \in 1..Len(PointsOf(c).y) : OnLimit(c, i) => MarkedOut(c, i)

\* both charts show a constant series: every point is on both limits
C7_Witness ==
    \A c \in Charts :
        /\ Shown(c)
        /\ Len(PointsOf(c).y) >= 4
        /\ QEq(UclOf(c), LclOf(c)) /\ QEq(UclOf(c), CenterOf(c))
        /\ \A i \in 1..Len(PointsOf(c).y) : OnLimit(c, i) /\ MarkedOut(c, i)

UpperGap(c) ==
    Q(UclOf(c).num * CenterOf(c).den - CenterOf(c).num * UclOf(c).den,
      UclOf(c).den * CenterOf(c).den)
LowerGap(c) ==
    Q(CenterOf(c).num * LclOf(c).den - LclOf(c).num * CenterOf(c).den,
      LclOf(c).den * CenterOf(c).den)

IsConstant(y) == \A i \in 1..Len(y) : y[i] = y[1]

\* C9: center line = mean of the sample; UCL - center = center - LCL =
\* 3 * (mean absolute difference of consecutive values) / 1.128; a constant
\* series gives center = ucl = lcl.
C9_LimitFormula ==
    \A c \in Charts : Shown(c) =>
        LET y == PointsOf(c).y
            n == Len(y)
        IN  /\ QEq(CenterOf(c), QMul(sum_of(y), Q(1, n)))
            /\ QEq(UpperGap(c),
                   QMul(sum_moving_range(y),
                        Q(3 * 1000, SCALAR_D_MILLI * (n - 1))))
            /\ QEq(UpperGap(c), LowerGap(c))
            /\ (IsConstant(y) =>
                    /\ QEq(CenterOf(c), QOf(y[1]))
                    /\ QEq(UclOf(c), CenterOf(c))
                    /\ QEq(LclOf(c), CenterOf(c)))

\* the raw chart shows a series with a positive spread, the adjusted chart a
\* constant series
C9_Witness ==
    /\ Shown(Raw) /\ Shown(Adjusted)
    /\ ~IsConstant(PointsOf(Raw).y)
    /\ Len(PointsOf(Raw).y) >= 3
    /\ QLess(Q(0, 1), UpperGap(Raw))
    /\ IsConstant(PointsOf(Adjusted).y)
    /\ QEq(UclOf(Adjusted), LclOf(Adjusted))

\* C10: when the raw chart and the adjusted chart show the same series, they
\* show the same center line, UCL and LCL and the same colour and alpha of
\* every point.
C10_SameSeriesSameChart ==
    (Shown(Raw) /\ PointsOf(Raw).y = PointsOf(Adjusted).y) =>
        /\ QEq(CenterOf(Raw), CenterOf(Adjusted))
        /\ QEq(UclOf(Raw), UclOf(Adjusted))
        /\ QEq(LclOf(Raw), LclOf(Adjusted))
        /\ PointsOf(Raw).color = PointsOf(Adjusted).color
        /\ PointsOf(Raw).alpha = PointsOf(Adjusted).alpha
        /\ div[Raw.div_center] = div[Adjusted.div_center]
        /\ div[Raw.div_ucl] = div[Adjusted.div_ucl]
        /\ div[Raw.div_lcl] = div[Adjusted.div_lcl]

\* update_plot was given a series without a missing value, then
\* update_adjusted_control_chart the same series as residuals, with points
\* inside and outside the limits
C10_Witness ==
    /\ call.op = "update_adjusted_control_chart"
    /\ raised = ""
    /\ Shown(Raw)
    /\ Len(PointsOf(Raw).y) = Len(PointsOf(Raw).x)
    /\ PointsOf(Raw).x = call.x
    /\ PointsOf(Raw).y = call.residuals
    /\ \E i \in 1..Len(call.residuals) : MarkedOut(Adjusted, i)
    /\ \E i \in 1..Len(call.residuals) : MarkedIn(Adjusted, i)

----------------------------------------------------------------------------
(* Properties of PlotTimeSeries, under SpecTimeSeries *)

\* the last call is an update_plot of the time-series plot
TsUpdated == call.op = "time_series.update_plot"

\* the studies of the call whose y is not the sentinel, and their values
TsPresent == {i \in 1..Len(call.y) : call.y[i] # NoneStr}
TsValues == SelectSeq(call.y, LAMBDA v : v # NoneStr)

\* the sources of the time-series plot
TsSource == time_series.source

\* v is at the place q/100 * (n - 1) of the ordered values, counted from 0:
\* at most ceil(place) values are below v, at least floor(place) + 1 values
\* are not above it
AtPercentile(values, q, v) ==
    LET n == Len(values)
        below == Cardinality({i \in 1..n : QLess(QOf(values[i]), v)})
        upto == Cardinality({i \in 1..n : QLeq(QOf(values[i]), v)})
    IN  /\ below * 100 * q.den < q.num * (n - 1) + 100 * q.den
        /\ upto * 100 * q.den > q.num * (n - 1)

\* the three levels of the band that is shown
TsLower == TsSource.bound.lower[1]
TsCenter == TsSource.bound.avg[1]
TsUpper == TsSource.bound.upper[1]

\* C11: for a coverage percentile p in [0, 100] and a series with a
\* non-missing value, the band shown has lower = the (50 - p/2)-th
\* percentile, center = the 50th percentile and upper = the (50 + p/2)-th
\* percentile of the non-missing y values, lower <= center <= upper, and the
\* patch spans lower to upper; for [10, 20, 30, 40, 50] and p = 80 the
\* center is 30 and the bounds are the 10th and 90th percentiles, 14 and 46
C11_PercentileBand ==
    TsUpdated /\ Len(TsValues) > 0 =>
        LET p == call.percentile
            lower == np_percentile(TsValues, Q(100 - p, 2))
            center == np_percentile(TsValues, Q(50, 1))
            upper == np_percentile(TsValues, Q(100 + p, 2))
        IN  /\ TsSource.bound.lower = <<lower, lower>>
            /\ TsSource.bound.avg = <<center, center>>
            /\ TsSource.bound.upper = <<upper, upper>>
            /\ TsSource.patch.y = <<upper, upper, lower, lower>>
            /\ QLeq(lower, center) /\ QLeq(center, upper)
            /\ AtPercentile(TsValues, Q(100 - p, 2), lower)
            /\ AtPercentile(TsValues, Q(50, 1), center)
            /\ AtPercentile(TsValues, Q(100 + p, 2), upper)
            /\ (TsValues = rising_series(5) /\ p = 80 =>
                    /\ center = Q(30, 1)
                    /\ lower = Q(14, 1)
                    /\ upper = Q(46, 1))

\* the band of [10, 20, 30, 40, 50] for p = 80 is shown: 14, 30, 46
C11_Witness ==
    /\ TsUpdated
    /\ TsValues = rising_series(5)
    /\ call.percentile = 80
    /\ TsLower = Q(14, 1) /\ TsCenter = Q(30, 1) /\ TsUpper = Q(46, 1)

\* every column of a source is empty
EmptySource(data) == \A data_key \in DOMAIN data : data[data_key] = <<>>

\* C12: update_plot of the time-series plot on an empty series, or on a
\* series whose y values are all the sentinel 'None', raises no error and
\* leaves the plotted points, the trend, the percentile bounds and the
\* percentile patch empty
C12_EmptySeriesGivesEmptyOutputs ==
    TsUpdated /\ TsValues = <<>> =>
        /\ time_series.raised = ""
        /\ EmptySource(TsSource.plot)
        /\ EmptySource(TsSource.trend)
        /\ EmptySource(TsSource.bound)
        /\ EmptySource(TsSource.patch)

\* a series of 'None' only has been plotted over an earlier band (only
\* update_trend gives the bound source its column y)
C12_Witness ==
    /\ TsUpdated
    /\ Len(call.y) > 0 /\ TsValues = <<>>
    /\ "y" \in DOMAIN TsSource.bound
    /\ EmptySource(TsSource.bound)

\* the index in the call of the j-th study whose y is not the sentinel
TsStudy(j) ==
    CHOOSE i \in TsPresent : Cardinality({k \in TsPresent : k < i}) = j - 1

\* the values of the studies that are not missing lie between lo and hi
TsMin == CHOOSE v \in {TsValues[i].num : i \in 1..Len(TsValues)} :
            \A i \in 1..Len(TsValues) : v <= TsValues[i].num
TsMax == CHOOSE v \in {TsValues[i].num : i \in 1..Len(TsValues)} :
            \A i \in 1..Len(TsValues) : v >= TsValues[i].num
Within(q) == QLeq(Q(TsMin, 1), q) /\ QLeq(q, Q(TsMax, 1))

\* the sum of the numbers of a list
TotalOf(counts) ==
    LET F[i \in 0..Len(counts)] == IF i = 0 THEN 0 ELSE F[i - 1] + counts[i]
    IN  F[Len(counts)]

\* C19: in the time-series plot a study whose y is the sentinel 'None' is
\* missing in every computation: the plotted points are exactly the other
\* studies, in order, with x, y, mrn and uid of equal length and
\* index-aligned; the histogram counts only them; every point of the trend
\* is at a date of one of them and every level of the trend and of the
\* percentile band lies within their values
C19_MissingStudiesExcluded ==
    TsUpdated =>
        LET pts == TsSource.plot
            n == Cardinality(TsPresent)
        IN  /\ Len(pts.x) = n /\ Len(pts.y) = n
            /\ Len(pts.mrn) = n /\ Len(pts.uid) = n
            /\ \A j \in 1..n :
                /\ pts.y[j] # NoneStr
                /\ pts.x[j] = call.x[TsStudy(j)]
                /\ pts.y[j] = call.y[TsStudy(j)]
                /\ pts.mrn[j] = call.mrn[TsStudy(j)]
                /\ pts.uid[j] = call.uid[TsStudy(j)]
            /\ TotalOf(TsSource.hist.top) = n
            /\ \A j \in 1..Len(TsSource.trend.x) :
                /\ \E i \in TsPresent : call.x[i] = TsSource.trend.x[j]
                /\ Within(TsSource.trend.y[j])
            /\ \A key \in {"upper", "avg", "lower"} :
               \A j \in 1..Len(TsSource.bound[key]) :
                    Within(TsSource.bound[key][j])

\* a series whose first study is missing has been plotted with its trend
C19_Witness ==
    /\ TsUpdated
    /\ Len(call.y) > 2
    /\ call.y[1] = NoneStr
    /\ Len(TsSource.plot.y) = Len(call.y) - 1
    /\ Len(TsSource.trend.x) > 0
    /\ TotalOf(TsSource.hist.top) = Len(call.y) - 1

\* the days on which a study that is not missing was observed
TsDays == {call.x[i].day : i \in TsPresent}

\* the studies that are not missing of day d, and the sum of their values
TsOnDay(d) == {i \in TsPresent : call.x[i].day = d}
TsSumOnDay(d) ==
    LET F[i \in 0..Len(call.y)] ==
            IF i = 0 THEN 0
            ELSE IF i \in TsOnDay(d) THEN F[i - 1] + call.y[i].num
            ELSE F[i - 1]
    IN  F[Len(call.y)]

\* the j-th day of TsDays in chronological order
TsDay(j) == CHOOSE d \in TsDays : Cardinality({e \in TsDays : e < d}) = j - 1

\* the mean of the values of the j-th day
TsDayMean(j) == Q(TsSumOnDay(TsDay(j)), Cardinality(TsOnDay(TsDay(j))))

\* C20: the studies that share a date are collapsed into one point whose
\* value is their mean, and the trend is computed on the collapsed series:
\* with a window of 1 the trend has one point for each distinct date, in
\* order, at the mean of the values of that date; with a window of 2 it has
\* one point for each pair of consecutive distinct dates, at the mean of the
\* two daily means
C20_TrendOnCollapsedDates ==
    TsUpdated /\ Len(TsValues) > 0 =>
        LET trend == TsSource.trend
            days == Cardinality(TsDays)
            w == call.avg_len
            m == IF days >= w THEN days - w + 1 ELSE 0
        IN  /\ Len(trend.x) = m /\ Len(trend.y) = m
            /\ \A j \in 1..m : trend.x[j] = Date(TsDay(j + w - 1))
            /\ w = 1 => \A j \in 1..m : trend.y[j] = TsDayMean(j)
            /\ w = 2 => \A j \in 1..m :
                    QEq(QMul(trend.y[j], Q(2, 1)),
                        QAdd(TsDayMean(j), TsDayMean(j + 1)))

\* four studies on two days have been plotted with a trend of two points
C20_Witness ==
    /\ TsUpdated
    /\ Len(TsValues) = 4
    /\ Cardinality(TsDays) = 2
    /\ call.avg_len = 1
    /\ Len(TsSource.trend.x) = 2
    /\ TsSource.trend.y = <<Q(15, 1), Q(35, 1)>>

\* the plotted points collapsed into single dates
TsCollapsed == collapse_into_single_dates(TsSource.plot.x, TsSource.plot.y)

\* C21: a moving average with a window of 1 is the identity: the trend is
\* the date-collapsed series of the plotted points unchanged, the same dates
\* in chronological order with the same values
C21_WindowOfOneIsIdentity ==
    TsUpdated /\ call.avg_len = 1 /\ Len(TsValues) > 0 =>
        /\ TsSource.trend.x = TsCollapsed.x
        /\ TsSource.trend.y = TsCollapsed.y
        /\ Len(TsSource.trend.x) = Cardinality(TsDays)
        /\ \A j \in 1..Len(TsSource.trend.x) :
            /\ TsSource.trend.x[j] = Date(TsDay(j))
            /\ QEq(TsSource.trend.y[j], TsDayMean(j))

\* five studies on three days have been plotted with a window of 1: the
\* trend has the three daily means
C21_Witness ==
    /\ TsUpdated
    /\ call.avg_len = 1
    /\ Len(TsValues) = 5
    /\ Cardinality(TsDays) = 3
    /\ Len(TsSource.trend.y) = 3
    /\ TsSource.trend.y[3] = Q(50, 1)

----------------------------------------------------------------------------
(* Properties of the regression plots, under SpecRegression and under      *)
(* SpecMultiVar                                                            *)

\* the last call is an update_plot of the regression plot, of the
\* multi-variable regression plot
RegUpdated == call.op = "regression.update_plot"
MvUpdated == call.op = "multi_var.update_plot"

\* the studies of plot_data, and those with a number for x and for y
RegStudies == 1..Len(call.plot_data.y)
RegKept ==
    {i \in RegStudies :
        call.plot_data.x[i].kind = "num" /\ call.plot_data.y[i].kind = "num"}

\* the index in plot_data of the j-th study of RegKept
RegStudy(j) ==
    CHOOSE i \in RegKept : Cardinality({r \in RegKept : r < i}) = j - 1

\* update_trend got its four lists from clean_data: mrn and date are given
RegUnpacked ==
    Len(call.plot_data.mrn) > 0 /\ Len(call.plot_data.date) > 0

\* the sources that show a fit are empty
NoFitShown(src) ==
    /\ EmptySource(src.trend)
    /\ EmptySource(src.residuals)
    /\ EmptySource(src.residuals_zero)
    /\ EmptySource(src.prob)
    /\ EmptySource(src.prob_45)
    /\ EmptySource(src.table)

\* the studies and the predictors of the call of the multi-variable plot
MvStudies == Len(call.stats_data.data[call.y_variable])
MvPredictors == Len(call.x_variables)

C14_PredictGivesPredictions ==
    RegUpdated /\ regression.raised = "" =>
        LET reg == regression.reg
            X == regression.handed.X
            trend == regression.source.trend
        IN  /\ Len(reg.predictions) = Len(X)
            /\ regression.source.residuals.x = reg.predictions
            /\ \A i \in 1..Len(X) :
                QEq(predict(reg, X)[i], reg.predictions[i])
            /\ \A j \in 1..2 :
                ~IsNaN(trend.x[j]) =>
                    /\ QEq(trend.y[j], predict(reg, <<<<trend.x[j]>>>>)[1])
                    /\ \A i \in 1..Len(X) :
                        X[i][1] = trend.x[j] =>
                            QEq(trend.y[j], reg.predictions[i])

\* a fit whose residuals are not zero is shown with its trend line
C14_Witness ==
    /\ RegUpdated /\ regression.raised = ""
    /\ Len(regression.handed.X) = 4
    /\ regression.reg.mse # Q(0, 1)
    /\ regression.handed.X[4][1] = regression.source.trend.x[2]
    /\ regression.source.trend.y[2] = regression.reg.predictions[4]

\* the studies with numbers lie on the line y = a + b * x
OnLine(a, b) ==
    \A i \in RegKept :
        call.plot_data.y[i].num = a + b * call.plot_data.x[i].num

\* the x of the studies with numbers are not all equal
RegVaries ==
    \E i, r \in RegKept : call.plot_data.x[i] # call.plot_data.x[r]

\* the intercepts and the slopes of the lines looked for
Intercepts == 0..5
Slopes == 0..2

LabelsOf(entry) == {entry[i] : i \in {j \in 1..Len(entry) : j % 2 = 1}}

\* the labels of all the entries
AllLabels(entries) == UNION {LabelsOf(entries[i]) : i \in 1..Len(entries)}

\* the rows of a CSV that hold a value
WithValue(rows) == SelectSeq(rows, LAMBDA row : row[2] # Omitted)

\* a table shows the fit of k predictors without an F test: the t-value
\* and the p-value of each coefficient, R^2 and MSE
ShowsFitWithoutF(table, k) ==
    /\ Len(table.coef) = k + 1
    /\ Len(table.t_value) = k + 1 /\ Len(table.p_value) = k + 1
    /\ AllLabels(table.fit_param) = {"R²", "MSE"}

\* C16: the overall F statistic and its p-value are reported only for fits
\* with k > 1 predictors, and for k = 1 the reported fit holds the t-value
\* and the p-value of each coefficient, R^2 and MSE but no F test: so in
\* the regression plot, and so in the multi-variable plot when the fit of
\* its call is constructed
C16_FTestOnlyForSeveralPredictors ==
    /\ RegUpdated /\ regression.raised = "" =>
        /\ regression.reg.k = 1
        /\ ShowsFitWithoutF(regression.source.table, 1)
        /\ AllLabels(regression_csv_fit(regression.reg)) = {"R^2", "MSE"}
    /\ MvUpdated /\ MvStudies >= MvPredictors + 2 =>
        LET table == multi_var.source.table
            exported == WithValue(multi_var_csv_fit(multi_var.reg))
        IN  IF MvPredictors > 1
            THEN /\ table.fit_param[2][1] = "f stat"
                 /\ table.fit_param[2][2] = Fmt3f(multi_var.reg.f_stat)
                 /\ AllLabels(exported) = {"R^2", "MSE", "f-stat", "f p-value"}
            ELSE /\ ShowsFitWithoutF(table, 1)
                 /\ AllLabels(exported) = {"R^2", "MSE"}

\* C17: the design matrix X and the response y handed to the regression in
\* PlotRegression.update_trend hold exactly the studies that have a value
\* for x and for y, 'None' and nan being no value; they have the same
\* number of rows, and row j of X and entry j of y belong to the same study
C17_DesignHoldsCompleteStudies ==
    RegUpdated /\ RegUnpacked =>
        LET X == regression.handed.X
            y == regression.handed.y
        IN  /\ Len(X) = Cardinality(RegKept)
            /\ Len(y) = Cardinality(RegKept)
            /\ \A j \in 1..Len(y) :
                /\ X[j] = <<call.plot_data.x[RegStudy(j)]>>
                /\ y[j] = call.plot_data.y[RegStudy(j)]

\* a study without y and a study with a nan for x have been left out
C17_Witness ==
    /\ RegUpdated
    /\ \E i \in RegStudies : call.plot_data.x[i] = NaN
    /\ Len(call.plot_data.y) = 4
    /\ Len(regression.handed.y) = 3
    /\ regression.raised = ""

\* the residuals plot of the regression plot
RegResiduals == regression.source.residuals

\* C23: a failed fit is never replaced by fabricated or stale results: if
\* the regression raises during PlotRegression.update_plot, then afterwards
\* the trend, residuals, probability-plot and table outputs are empty and
\* self.reg holds no fit of an earlier call for export
C23_FailedFitLeavesNoFit ==
    RegUpdated /\ regression.raised # "" =>
        /\ NoFitShown(regression.source)
        /\ regression.reg = PyNone

\* C25: after PlotRegression.update_trend the columns of the residuals
\* output (fitted values, residuals, mrn, date) have the same length and
\* entry j of each belongs to the same study, also when values are 'None'
\* or nan
C25_ResidualColumnsAligned ==
    RegUpdated /\ regression.raised = "" =>
        /\ Len(RegResiduals.x) = Len(RegResiduals.y)
        /\ Len(RegResiduals.mrn) = Len(RegResiduals.x)
        /\ Len(RegResiduals.date) = Len(RegResiduals.x)
        /\ \A j \in 1..Len(RegResiduals.x) :
            /\ RegResiduals.mrn[j] = call.plot_data.mrn[RegStudy(j)]
            /\ RegResiduals.date[j] = call.plot_data.date[RegStudy(j)]
            /\ QEq(RegResiduals.x[j],
                   predict(regression.reg,
                           <<<<call.plot_data.x[RegStudy(j)]>>>>)[1])
            /\ QEq(QAdd(RegResiduals.x[j], RegResiduals.y[j]),
                   QOf(call.plot_data.y[RegStudy(j)]))

----------------------------------------------------------------------------
(* Properties of update_plot called again and again, under SpecPlots *)

ChartUpdated == call.op = "update_plot"

\* what a newly constructed plot holds after the call
NewChart ==
    control_chart_update_plot(ControlChartInit, call.x, call.y, call.mrn,
                              call.uid, call.dates, call.y_axis_label)
NewTimeSeries ==
    time_series_update_plot(TimeSeriesInit, call.x, call.y, call.mrn,
                            call.uid, call.y_axis_label, call.avg_len,
                            call.percentile, call.bin_size)
NewRegression ==
    regression_update_plot(RegressionInit, call.plot_data, call.x_var,
                           call.x_axis_title, call.y_axis_title)

\* a column of a source; a column the source does not have holds nothing
Column(data, data_key) ==
    IF data_key \in DOMAIN data THEN data[data_key] ELSE <<>>

\* two sets of sources show the same: each column of each source holds the
\* same in both (update_plot can add a column to a source, which clear_source
\* then keeps, empty)
SameData(src, new) ==
    /\ DOMAIN src = DOMAIN new
    /\ \A key \in DOMAIN src :
       \A data_key \in DOMAIN src[key] \cup DOMAIN new[key] :
           Column(src[key], data_key) = Column(new[key], data_key)

----------------------------------------------------------------------------
(* Properties of the adjusted control chart, under SpecAdjusted *)

\* get_adjusted_control_chart has returned, and the chart has been drawn
AdjReturned == call.op = "adjusted_control_chart" /\ ans # <<>>
AdjDrawn == AdjReturned /\ raised = ""

\* the study of the sample at place r of what was returned
AdjStudy(r) == ans.mrn[r].study

\* the studies of the sample with a y
AdjComplete ==
    {i \in 1..Len(call.stats_data.mrn) :
        ~IsNoneStr(call.stats_data.data[call.y_variable][i])}

\* what the fit of the regression plot predicts for study i of the sample:
\* intercept + sum of slope * x over the x variables
AdjPrediction(i) ==
    LET x(j) == QOf(call.stats_data.data[call.x_variables[j]][i])
        F[j \in 0..Len(call.x_variables)] ==
            IF j = 0 THEN multi_var.reg.y_intercept
            ELSE QAdd(F[j - 1], QMul(multi_var.reg.slope[j], x(j)))
    IN  F[Len(call.x_variables)]

\* the observed y of study i less the prediction
AdjResidual(i) ==
    QSub(QOf(call.stats_data.data[call.y_variable][i]), AdjPrediction(i))

\* C22: the adjusted control chart is the pipeline align, fit, residuals,
\* limits: the residual returned for a study is its observed y less the
\* prediction of the fit made before for its row of X, the studies are those
\* with a value for every variable, and these residuals are the sample the
\* adjusted chart plots, takes its limits from and classifies
C22_ResidualsAreTheSample ==
    /\ AdjReturned =>
        /\ Len(ans.residuals) = Cardinality(AdjComplete)
        /\ \A r \in 1..Len(ans.residuals) :
            /\ AdjStudy(r) \in AdjComplete
            /\ QEq(ans.residuals[r], AdjResidual(AdjStudy(r)))
    /\ AdjDrawn =>
        /\ PointsOf(Adjusted).y = ans.residuals
        /\ PointsOf(Adjusted).mrn = ans.mrn
        /\ <<CenterOf(Adjusted), UclOf(Adjusted), LclOf(Adjusted)>>
                = get_control_limits(ans.residuals)
        /\ \A i \in 1..Len(ans.residuals) :
            /\ MarkedOut(Adjusted, i) <=>
                    \/ QLeq(UclOf(Adjusted), ans.residuals[i])
                    \/ QLeq(ans.residuals[i], LclOf(Adjusted))
            /\ MarkedIn(Adjusted, i) <=> ~MarkedOut(Adjusted, i)

\* a fit on two variables, and the chart of a sample whose first study has
\* no y: the residuals of the others, one of them not zero
C22_Witness ==
    /\ AdjDrawn
    /\ Len(call.x_variables) = 2
    /\ Cardinality(AdjComplete) = Len(call.stats_data.mrn) - 1
    /\ Len(ans.residuals) >= 3
    /\ \E r \in 1..Len(ans.residuals) : ans.residuals[r].num # 0

\* C24: get_adjusted_control_chart returns residuals, mrn, uid and dates in
\* non-decreasing order of date, all four reordered by one permutation of the
\* studies (entry r of each belongs to one study, studies of one date keep
\* their order), with x = 1..n
C24_SortedByDateTogether ==
    AdjReturned =>
        LET n == Len(ans.dates)
        IN  /\ Len(ans.residuals) = n /\ Len(ans.mrn) = n
            /\ Len(ans.uid) = n /\ Len(ans.x) = n
            /\ {AdjStudy(r) : r \in 1..n} = AdjComplete
            /\ Cardinality(AdjComplete) = n
            /\ \A r \in 1..n :
                /\ ans.x[r] = Num(r)
                /\ ans.mrn[r] = call.stats_data.mrn[AdjStudy(r)]
                /\ ans.uid[r] = call.stats_data.uid[AdjStudy(r)]
                /\ ans.dates[r] = call.stats_data.dates[AdjStudy(r)]
                /\ QEq(ans.residuals[r], AdjResidual(AdjStudy(r)))
            /\ \A r, t \in 1..n : r < t =>
                /\ ans.dates[r].day <= ans.dates[t].day
                /\ ans.dates[r].day = ans.dates[t].day =>
                        AdjStudy(r) < AdjStudy(t)

\* a sample whose dates are not in order and have ties has been sorted
C24_Witness ==
    /\ AdjReturned
    /\ Len(ans.dates) >= 4
    /\ \E i \in 2..Len(call.stats_data.dates) :
            call.stats_data.dates[i].day < call.stats_data.dates[i - 1].day
    /\ \E r \in 2..Len(ans.dates) : ans.dates[r] = ans.dates[r - 1]
    /\ AdjStudy(1) # 1

----------------------------------------------------------------------------
(* Properties of the main frame, under SpecMainFrame and under SpecFilters *)

\* a notebook tab other than Welcome is enabled
TabsEnabled ==
    \E key \in TabKeys \ {"Welcome"} : main_frame.notebook_tab[key]

\* the rows of a filter table, and of the two tables together
Rows(key) == row_count(main_frame.data_table[key])
AllRows == Rows("categorical") + Rows("numerical")

\* C26: in every state reached by query, open and close events, if any
\* notebook tab other than Welcome is enabled then a query result is loaded
\* (dvh is not None), and the Regression and Control Chart tabs are enabled
\* only if the loaded result has more than one DVH
C26_TabsOnlyWithData ==
    /\ TabsEnabled => main_frame.dvh # PyNone
    /\ \A key \in {"Regression", "Control Chart"} :
        main_frame.notebook_tab[key] =>
            main_frame.dvh # PyNone /\ main_frame.dvh.count > 1

\* C27: after every add-filter, delete-filter and close event the button
\* Query and Retrieve is enabled if and only if the two filter tables
\* together hold at least one row, and the Delete and Edit buttons of a
\* table are enabled if and only if that table holds at least one row
C27_ButtonsFollowRows ==
    call.op \in {"add_row", "del_row", "on_close"} =>
        /\ main_frame.button_query_execute <=> AllRows >= 1
        /\ \A key \in QueryTypes :
            /\ main_frame.button[key].del <=> Rows(key) >= 1
            /\ main_frame.button[key].edit <=> Rows(key) >= 1

\* the only categorical filter has been deleted, a numerical filter is
\* left: the query button stays enabled, the buttons of the categorical
\* table are disabled
C27_Witness ==
    /\ call.op = "del_row" /\ call.query_type = "categorical"
    /\ main_frame.raised = ""
    /\ Rows("categorical") = 0 /\ Rows("numerical") = 1
    /\ main_frame.button_query_execute
    /\ ~main_frame.button.categorical.del
    /\ main_frame.button.numerical.edit

\* C28: whenever the Delete button of a filter table is enabled a row of
\* the table is selected, so that del_row_categorical and del_row_numerical
\* never call delete_row with a None index
C28_DeleteNeedsSelection ==
    /\ \A key \in QueryTypes :
        main_frame.button[key].del => main_frame.selected_index[key] # PyNone
    /\ call.op = "del_row" => call.index # PyNone

\* C29: on_save writes a data file only while queried data is loaded (dvh
\* is not None): before the first successful query, after close() and
\* after a query that returned no DVHs it shows 'There is no data to save'
\* and writes nothing
C29_SaveOnlyWithData ==
    call.op = "on_save" /\ main_frame.dvh = PyNone =>
        /\ main_frame.message = NoDataToSave
        /\ ~main_frame.written

----------------------------------------------------------------------------
(* Properties of Options, under SpecOptions *)

\* the options file exists and the stored checksum is the checksum of the
\* options file as it is now
StoredChecksumValid ==
    /\ options.disk.OPTIONS_PATH # PyNone
    /\ options.disk.OPTIONS_PATH.readable
    /\ options.disk.OPTIONS_CHECKSUM_PATH # PyNone
    /\ options.disk.OPTIONS_CHECKSUM_PATH.of = options.disk.OPTIONS_PATH.bytes

\* a new Options object holds the values the object before it has saved
RestoresSaved ==
    call.op = "save" /\ raised = "" /\ call'.op = "Options" =>
        /\ DOMAIN options'.self.dict = options.self.option_attr
        /\ \A attr \in options.self.option_attr :
            options'.self.dict[attr] = options.self.dict[attr]

\* C30: load applies stored values only when the options file exists and
\* the stored checksum equals the checksum of the current options file; in
\* every other case (checksum file missing, options file changed after the
\* last save, file unreadable) all options keep their default values.
\* After save(), a load by a new Options object restores exactly the saved
\* values of the known option attributes
C30_LoadOnlyValidated ==
    /\ [](call.op = "Options" /\ ~StoredChecksumValid =>
            options.self.dict = DefaultOptions)
    /\ [][RestoresSaved]_vars

\* a new Options object has loaded a saved value that is not the default
C30_Witness ==
    /\ call.op = "Options"
    /\ StoredChecksumValid
    /\ options.self.dict.MIN_BORDER # DefaultOptions.MIN_BORDER
    /\ options.disk.OPTIONS_PATH.bytes.pickle.MIN_BORDER
        = options.self.dict.MIN_BORDER

====
